---- MODULE Spec2Model ----
(***************************************************************************)
(* A model of the procedure state machine of yasa_core: the GameState,     *)
(* the execution handlers (actions/execution), the chance rollouts          *)
(* (actions/rollout), the block discovery (actions/discovery/block.rs) and  *)
(* the ActionRegistry dispatch (actions/core/registry.rs).                  *)
(*                                                                         *)
(* A handler `fn h(game_state: &mut GameState, ..) -> Result<(), String>`   *)
(* is an operator h(s, ..) that yields [ok |-> BOOLEAN, gs |-> state]: gs   *)
(* is the state the caller is left with, including whatever the handler    *)
(* had already written when it returned Err.  Probabilities are counted in *)
(* sixths (faces of a d6): 5.0 / 6.0 is 5.                                 *)
(***************************************************************************)
EXTENDS Integers, Sequences, FiniteSets, TLC

VARIABLES
    gs,        \* the GameState the caller holds
    outcomes,  \* Vec<RolloutOutcome> of the last rollout call, <<>> otherwise
    last,      \* the last call: [op, ok]
    nodes,     \* MCTSTree.nodes, the arena of MCTSNode; <<>> when no tree is built
    result,    \* what MCTSSearch::search returned: <<[ok, action]>>, NoneOpt before
    found      \* the Vec<Path> Pathfinder::find_all_paths returned, <<>> before

vars == <<gs, outcomes, last, nodes, result, found>>

----------------------------------------------------------------------------
(* model/constants.rs *)
ARENA_WIDTH == 28
ARENA_HEIGHT == 17

(* Bounds of the explored inputs. *)
MaxX == 3        \* squares of the explored window lie within MaxX columns of an end column
MaxY == 3        \* and in rows 1..MaxY
MaxMa == 1       \* movement allowance of the acting player: 1..MaxMa
MaxPathLen == 2  \* squares of a Path attached to a Move action: 1..MaxPathLen
MaxBystanders == 3  \* players around a block besides its attacker and defender: 0..MaxBystanders

None == "None"          \* Option<String>, Option<Procedure>: None
NoSquare == <<>>        \* Option<Square>: None; Some(sq) is the square <<x, y>>
NoneOpt == <<>>         \* Option<struct>: None; Some(v) is <<v>>

Abs(n) == IF n < 0 THEN -n ELSE n
Max2(a, b) == IF a >= b THEN a ELSE b
Min2(a, b) == IF a <= b THEN a ELSE b
Clamp(v, lo, hi) == Max2(lo, Min2(v, hi))

----------------------------------------------------------------------------
(* model/position.rs *)
Sq(x, y) == <<x, y>>

distance(a, b) == Max2(Abs(a[1] - b[1]), Abs(a[2] - b[2]))

manhattan_distance(a, b) == Abs(a[1] - b[1]) + Abs(a[2] - b[2])

is_out_of_bounds(sq) ==
    sq[1] <= 0 \/ sq[1] >= ARENA_WIDTH - 1 \/ sq[2] <= 0 \/ sq[2] >= ARENA_HEIGHT - 1

Directions ==
    << <<-1, -1>>, <<-1, 0>>, <<-1, 1>>, <<0, -1>>, <<0, 1>>, <<1, -1>>, <<1, 0>>, <<1, 1>> >>

InGrid(sq) == sq[1] \in 0..(ARENA_WIDTH - 1) /\ sq[2] \in 0..(ARENA_HEIGHT - 1)

RECURSIVE AdjacentFrom(_, _)
AdjacentFrom(sq, i) ==
    IF i > Len(Directions) THEN <<>>
    ELSE LET n == Sq(sq[1] + Directions[i][1], sq[2] + Directions[i][2])
         IN (IF InGrid(n) THEN <<n>> ELSE <<>>) \o AdjacentFrom(sq, i + 1)

get_adjacent_squares(sq) == AdjacentFrom(sq, 1)

----------------------------------------------------------------------------
(* model/game.rs: queries on a GameState s.  The two teams are "home" and  *)
(* "away"; s.players maps a player id to its player, whose .team names the *)
(* team whose players_by_id holds it.                                      *)

Ids(s) == DOMAIN s.players

TeamIds(s, team) == {p \in Ids(s) : s.players[p].team = team}

is_home_team(s, team_id) == team_id = "home"

OppTeam(s, team_id) == IF is_home_team(s, team_id) THEN "away" ELSE "home"

is_ball_carried(s) == IF Len(s.balls) > 0 THEN s.balls[1].is_carried ELSE FALSE

\* Err is NoSquare
get_ball_position(s) == IF Len(s.balls) > 0 THEN s.balls[1].position ELSE NoSquare

HasPlayer(s, id) == id \in Ids(s)

is_active_player_carrying_ball(s) ==
    IF is_ball_carried(s)
    THEN IF HasPlayer(s, s.active_player_id)
         THEN s.players[s.active_player_id].position = s.balls[1].position
         ELSE FALSE
    ELSE FALSE

PlayersAt(s, sq) == {p \in Ids(s) : s.players[p].position = sq}

\* Err is None; the home team is searched first
get_player_at(s, sq) ==
    IF sq = NoSquare THEN None
    ELSE IF PlayersAt(s, sq) \cap TeamIds(s, "home") # {}
         THEN CHOOSE p \in PlayersAt(s, sq) \cap TeamIds(s, "home") : TRUE
         ELSE IF PlayersAt(s, sq) # {}
              THEN CHOOSE p \in PlayersAt(s, sq) : TRUE
              ELSE None

get_ball_carrier(s) == get_player_at(s, get_ball_position(s))

get_team_tackle_zones_at(s, team_id, sq) ==
    Cardinality({o \in TeamIds(s, OppTeam(s, team_id)) :
                    /\ s.players[o].position # NoSquare
                    /\ distance(sq, s.players[o].position) = 1
                    /\ s.players[o].up
                    /\ ~s.players[o].stunned})

(* model/player.rs *)
get_ma(player) == Clamp(player.ma, 1, 10)
get_ag(player) == Clamp(player.ag, 1, 10)

(* The ActivePath of the state (PathFollowState): the squares of the path  *)
(* and the index of the next step.                                         *)
NewPathFollowState(squares) == [squares |-> squares, current_step |-> 0]

is_complete(ps) == ps.current_step >= Len(ps.squares)

\* None is NoSquare
next_square(ps) == IF is_complete(ps) THEN NoSquare ELSE ps.squares[ps.current_step + 1]

advance(ps) == IF is_complete(ps) THEN ps ELSE [ps EXCEPT !.current_step = @ + 1]

Ok(s) == [ok |-> TRUE, gs |-> s]
Err(s) == [ok |-> FALSE, gs |-> s]

----------------------------------------------------------------------------
(* actions/common.rs *)

SetPlayer(s, id, player) == [s EXCEPT !.players[id] = player]

\* a variant that leaves the step counter of the path alone
AdvancePathKeepsStep(s) == s

AdvancePath(s) ==
    IF s.active_path # NoneOpt
    THEN [s EXCEPT !.active_path = <<advance(s.active_path[1])>>]
    ELSE s

\* the ball on `position` is picked up; a completed path is dropped
PickUp(s, position) ==
    IF get_ball_position(s) # NoSquare /\ get_ball_position(s) = position
    THEN LET s1 == [s EXCEPT !.balls[1].is_carried = TRUE]
         IN IF s1.active_path # NoneOpt /\ is_complete(s1.active_path[1])
            THEN [s1 EXCEPT !.active_path = NoneOpt]
            ELSE s1
    ELSE s

\* a variant that puts the home scoring column on the end column x = 0
IsTouchdownSquareEndColumn(is_home, position) ==
    IF is_home THEN position[1] = 0 ELSE position[1] = ARENA_WIDTH - 1

IsTouchdownSquare(is_home, position) ==
    IF is_home THEN position[1] = 1 ELSE position[1] = ARENA_WIDTH - 1

\* a variant that counts a touchdown twice
AddScore_twice(s, is_home) ==
    IF is_home THEN [s EXCEPT !.score.home = @ + 2] ELSE [s EXCEPT !.score.away = @ + 2]

AddScore(s, is_home) ==
    IF is_home THEN [s EXCEPT !.score.home = @ + 1] ELSE [s EXCEPT !.score.away = @ + 1]

RestoreParent(s) ==
    IF s.procedure # "Touchdown" THEN [s EXCEPT !.procedure = s.parent_procedure] ELSE s

\* the carried ball follows the player; a touchdown is scored in the scoring column
CarryBall(s, position) ==
    LET s1 == [s EXCEPT !.balls[1].position = position]
    IN IF s1.current_team_id = None THEN Err(s1)
       ELSE LET is_home == is_home_team(s1, s1.current_team_id)
            IN IF IsTouchdownSquare(is_home, position)
               THEN Ok(AddScore([s1 EXCEPT !.procedure = "Touchdown"], is_home))
               ELSE Ok(s1)

execute_player_movement(s, position) ==
    IF s.parent_procedure = None THEN Err(s)
    ELSE IF ~HasPlayer(s, s.active_player_id) THEN Err(s)
    ELSE LET was_carrying == is_active_player_carrying_ball(s)
             active_player == s.players[s.active_player_id]
             old_moves == active_player.moves
             ma == get_ma(active_player)
         IN IF old_moves >= ma + 2 THEN Err(s)
            ELSE LET s1 == SetPlayer(s, s.active_player_id,
                                [active_player EXCEPT !.moves = old_moves + 1,
                                                      !.position = position])
                     s2 == PickUp(AdvancePath(s1), position)
                 IN IF was_carrying \/ is_active_player_carrying_ball(s2)
                    THEN LET r == CarryBall(s2, position)
                         IN IF r.ok THEN Ok(RestoreParent(r.gs)) ELSE r
                    ELSE Ok(RestoreParent(s2))

----------------------------------------------------------------------------
(* actions/execution/movement.rs *)

\* An Action is [action_type, player, position, path]; path is NoneOpt or <<squares>>.
NewAction(action_type, player, position) ==
    [action_type |-> action_type, player |-> player, position |-> position, path |-> NoneOpt]

NewActionWithPath(action_type, player, squares) ==
    [action_type |-> action_type, player |-> player,
     position |-> squares[Len(squares)], path |-> <<squares>>]

\* a variant of the equality that also compares the attached paths
eq_with_path(self, other) == self = other

\* impl PartialEq for Action
eq(self, other) ==
    /\ self.action_type = other.action_type
    /\ self.player = other.player
    /\ self.position = other.position

\* impl Hash for Action: the values written into the Hasher, in this order
\* (Hasher::finish is a function of what was written)
hash(self) == <<self.action_type, self.player, self.position>>

AttachPath(s, action) ==
    IF s.active_path = NoneOpt /\ action.path # NoneOpt
    THEN [s EXCEPT !.active_path = <<NewPathFollowState(action.path[1])>>]
    ELSE s

\* the square of the step: the next square of the path, or the action's position
StepSquare(s, action) ==
    IF s.active_path # NoneOpt THEN next_square(s.active_path[1]) ELSE action.position

\* a variant that lets one step beyond the movement allowance go without a GFI
gfi_required_late(player) == player.moves > get_ma(player)

gfi_required(player) == player.moves + 1 > get_ma(player)

move_execution(s, action) ==
    LET s1 == AttachPath(s, action)
        position == StepSquare(s1, action)
    IN IF position = NoSquare THEN Err(s1)
       ELSE IF s1.current_team_id = None THEN Err(s1)
       ELSE IF ~HasPlayer(s1, s1.active_player_id) THEN Err(s1)
       ELSE IF gfi_required(s1.players[s1.active_player_id])
            THEN Ok([s1 EXCEPT !.parent_procedure = s1.procedure,
                               !.procedure = "GFI",
                               !.position = position])
       ELSE IF s1.players[s1.active_player_id].position = NoSquare THEN Err(s1)
       ELSE IF get_team_tackle_zones_at(s1, s1.current_team_id,
                                        s1.players[s1.active_player_id].position) > 0
            THEN Ok([s1 EXCEPT !.procedure = "Dodge", !.position = position])
       ELSE LET r == execute_player_movement(s1, position)
            IN IF r.ok THEN Ok(r.gs) ELSE r

stand_up_execution(s) ==
    IF ~HasPlayer(s, s.active_player_id) THEN Err(s)
    ELSE Ok([s EXCEPT !.players[s.active_player_id].up = TRUE,
                      !.players[s.active_player_id].moves = @ + 3])

----------------------------------------------------------------------------
(* actions/rollout/mod.rs, actions/rollout/model.rs.  A rollout yields     *)
(* [ok, outcomes]; an outcome is [probability (in sixths), resulting_state]. *)

RolloutOutcome(probability, state) ==
    [probability |-> probability, resulting_state |-> state]

RollOk(outs) == [ok |-> TRUE, outcomes |-> outs]
RollErr == [ok |-> FALSE, outcomes |-> <<>>]

\* a variant of the failed roll that also clears the moves of the player
FailedRollClearsMoves(s) ==
    [s EXCEPT !.players[s.active_player_id].position = s.position,
              !.players[s.active_player_id].up = FALSE,
              !.players[s.active_player_id].moves = 0,
              !.procedure = "Turnover",
              !.parent_procedure = None]

\* the state of a failed GFI or Dodge roll
FailedRoll(s) ==
    [s EXCEPT !.players[s.active_player_id].position = s.position,
              !.players[s.active_player_id].up = FALSE,
              !.procedure = "Turnover",
              !.parent_procedure = None]

gfi_rollout(s) ==
    IF s.current_team_id = None THEN RollErr
    ELSE IF s.position = NoSquare THEN RollErr
    ELSE LET success ==
                 IF get_team_tackle_zones_at(s, s.current_team_id, s.position) > 0
                 THEN Ok([s EXCEPT !.procedure = "Dodge"])
                 ELSE execute_player_movement(s, s.position)
         IN IF ~success.ok THEN RollErr
            ELSE IF ~HasPlayer(s, s.active_player_id) THEN RollErr
            ELSE RollOk(<< RolloutOutcome(5, success.gs),
                           RolloutOutcome(1, FailedRoll(s)) >>)

\* agility table: 1 -> 6+, 2 -> 5+, 3 -> 4+, 4 -> 3+, 5 -> 2+, 6 -> 1+
min_required(ag) ==
    CASE ag = 1 -> 6
      [] ag = 2 -> 5
      [] ag = 3 -> 4
      [] ag = 4 -> 3
      [] ag = 5 -> 2
      [] OTHER -> 1

\* the faces of the d6 on which the dodge fails: 1 always, 6 never
DodgeFailures(min_req, tz) ==
    1 + Cardinality({roll \in 2..5 : (roll + 1 - tz) < min_req})

dodge_rollout(s) ==
    IF ~HasPlayer(s, s.active_player_id) THEN RollErr
    ELSE IF s.current_team_id = None THEN RollErr
    ELSE IF s.position = NoSquare THEN RollErr
    ELSE LET ag == get_ag(s.players[s.active_player_id])
             tz == get_team_tackle_zones_at(s, s.current_team_id, s.position)
             failures == DodgeFailures(min_required(ag), tz)
             success == execute_player_movement(s, s.position)
         IN IF ~success.ok THEN RollErr
            ELSE RollOk(<< RolloutOutcome(6 - failures, success.gs),
                           RolloutOutcome(failures, FailedRoll(s)) >>)

BlockFace(s, probability, face) ==
    RolloutOutcome(probability, [s EXCEPT !.procedure = "Block", !.rolls = <<face>>])

\* a variant that gives the push face one sixth and the attacker-down face two
block_rollout_one_push_face(s) ==
    RollOk(<< BlockFace(s, 1, "SelectDefenderStumbles"),
              BlockFace(s, 1, "SelectDefenderDown"),
              BlockFace(s, 1, "SelectPush"),
              BlockFace(s, 1, "SelectBothDown"),
              BlockFace(s, 2, "SelectAttackerDown") >>)

block_rollout(s) ==
    RollOk(<< BlockFace(s, 1, "SelectDefenderStumbles"),
              BlockFace(s, 1, "SelectDefenderDown"),
              BlockFace(s, 2, "SelectPush"),
              BlockFace(s, 1, "SelectBothDown"),
              BlockFace(s, 1, "SelectAttackerDown") >>)

----------------------------------------------------------------------------
(* actions/execution/turn.rs *)

StartProcedure(s, action, procedure) ==
    [s EXCEPT !.active_player_id = action.player,
              !.procedure = procedure,
              !.parent_procedure = procedure]

start_move_execution(s, action) ==
    IF action.player = None THEN Err(s)
    ELSE Ok(StartProcedure(s, action, "MoveAction"))

start_blitz_execution(s, action) ==
    IF action.player = None THEN Err(s)
    ELSE IF s.turn_state = NoneOpt THEN Err(StartProcedure(s, action, "BlitzAction"))
    ELSE Ok([StartProcedure(s, action, "BlitzAction")
                EXCEPT !.turn_state[1].blitz_available = FALSE])

start_pass_execution(s, action) ==
    IF action.player = None THEN Err(s)
    ELSE IF s.turn_state = NoneOpt THEN Err(StartProcedure(s, action, "PassAction"))
    ELSE Ok([StartProcedure(s, action, "PassAction")
                EXCEPT !.turn_state[1].pass_available = FALSE])

start_handoff_execution(s, action) ==
    IF action.player = None THEN Err(s)
    ELSE IF s.turn_state = NoneOpt THEN Err(StartProcedure(s, action, "HandoffAction"))
    ELSE Ok([StartProcedure(s, action, "HandoffAction")
                EXCEPT !.turn_state[1].handoff_available = FALSE])

\* a variant that starts the foul and leaves foul_available as it was
start_foul_execution_keeps_flag(s, action) ==
    IF action.player = None THEN Err(s)
    ELSE IF s.turn_state = NoneOpt THEN Err(StartProcedure(s, action, "FoulAction"))
    ELSE Ok(StartProcedure(s, action, "FoulAction"))

start_foul_execution(s, action) ==
    IF action.player = None THEN Err(s)
    ELSE IF s.turn_state = NoneOpt THEN Err(StartProcedure(s, action, "FoulAction"))
    ELSE Ok([StartProcedure(s, action, "FoulAction")
                EXCEPT !.turn_state[1].foul_available = FALSE])

start_block_execution(s, action) ==
    IF action.player = None THEN Err(s)
    ELSE Ok(StartProcedure(s, action, "BlockAction"))

end_turn_execution(s) ==
    Ok([s EXCEPT !.active_player_id = None,
                 !.procedure = "EndTurn",
                 !.parent_procedure = None])

end_player_turn_execution(s) ==
    IF ~HasPlayer(s, s.active_player_id) THEN Err(s)
    ELSE Ok([s EXCEPT !.players[s.active_player_id].used = TRUE,
                      !.players[s.active_player_id].moves = 0,
                      !.players[s.active_player_id].has_blocked = FALSE,
                      !.active_player_id = None,
                      !.procedure = "Turn",
                      !.parent_procedure = None])

----------------------------------------------------------------------------
(* model/block.rs, actions/execution/block.rs *)

PushChainItem(attacker, defender, position) ==
    [attacker |-> attacker, defender |-> defender, position |-> position]

BlockContext(attacker, defender, position) ==
    [attacker |-> attacker, defender |-> defender, position |-> position,
     knock_out |-> FALSE, push_chain |-> <<>>]

block_execution(s, action) ==
    LET s1 == [s EXCEPT !.procedure = "BlockRoll"]
    IN IF action.position = NoSquare THEN Err(s1)
       ELSE IF s1.active_player_id = None THEN Err(s1)
       ELSE IF get_player_at(s1, action.position) = None THEN Err(s1)
       ELSE Ok([s1 EXCEPT !.block_context =
                    <<BlockContext(s1.active_player_id,
                                   get_player_at(s1, action.position),
                                   action.position)>>])

select_attacker_down_execution(s) ==
    LET s1 == [s EXCEPT !.procedure = "Turnover"]
    IN IF ~HasPlayer(s1, s1.active_player_id) THEN Err(s1)
       ELSE Ok([s1 EXCEPT !.players[s1.active_player_id].knocked_out = TRUE])

select_both_down_execution(s) ==
    IF s.block_context = NoneOpt THEN Err(s)
    ELSE LET defender_id == s.block_context[1].defender
             s1 == [s EXCEPT !.procedure = "Turnover"]
         IN IF ~HasPlayer(s1, s1.active_player_id) THEN Err(s1)
            ELSE LET s2 == [s1 EXCEPT !.players[s1.active_player_id].knocked_out = TRUE]
                 IN IF ~HasPlayer(s2, defender_id) THEN Err(s2)
                    ELSE Ok([s2 EXCEPT !.players[defender_id].knocked_out = TRUE])

\* procedure Push with the block's own attacker and defender as the first chain item
StartPushChain(s, knock_out) ==
    LET s1 == [s EXCEPT !.procedure = "Push"]
    IN IF s1.block_context = NoneOpt THEN Err(s1)
       ELSE LET ctx == s1.block_context[1]
            IN Ok([s1 EXCEPT !.block_context =
                      <<[ctx EXCEPT !.knock_out = knock_out,
                                    !.push_chain = Append(@,
                                        PushChainItem(ctx.attacker, ctx.defender, NoSquare))]>>])

\* a variant that starts the push without a record of it
select_push_execution_without_record(s) ==
    LET s1 == [s EXCEPT !.procedure = "Push"]
    IN IF s1.block_context = NoneOpt THEN Err(s1)
       ELSE Ok([s1 EXCEPT !.block_context[1].knock_out = FALSE])

select_push_execution(s) == StartPushChain(s, FALSE)

select_defender_stumbles_execution(s) == StartPushChain(s, TRUE)

select_defender_down_execution(s) == StartPushChain(s, TRUE)

update_latest_push_position(s, position) ==
    IF s.block_context = NoneOpt THEN Err(s)
    ELSE IF Len(s.block_context[1].push_chain) = 0 THEN Err(s)
    ELSE Ok([s EXCEPT !.block_context[1].push_chain[Len(s.block_context[1].push_chain)].position
                          = position])

\* a variant that records the block's own attacker as the pusher of every chained push
add_chained_push_by_attacker(s, player_id) ==
    IF s.block_context = NoneOpt THEN Err(s)
    ELSE IF Len(s.block_context[1].push_chain) = 0 THEN Err(s)
    ELSE Ok([s EXCEPT !.block_context[1].push_chain =
                Append(@, PushChainItem(s.block_context[1].attacker, player_id, NoSquare))])

add_chained_push(s, player_id) ==
    IF s.block_context = NoneOpt THEN Err(s)
    ELSE IF Len(s.block_context[1].push_chain) = 0 THEN Err(s)
    ELSE LET chain == s.block_context[1].push_chain
             latest_defender == chain[Len(chain)].defender
         IN Ok([s EXCEPT !.block_context[1].push_chain =
                    Append(@, PushChainItem(latest_defender, player_id, NoSquare))])

\* a variant that moves the defender of the item and leaves the ball where it was
PushOneLeavesBall(s, item) ==
    IF ~HasPlayer(s, item.defender) THEN Err(s)
    ELSE Ok([s EXCEPT !.players[item.defender].position = item.position])

\* one chain item: the defender moves to the item's position and a ball it carries with it
\* a variant that leaves the pushed player where it stands
PushOneStays(s, item) == IF ~HasPlayer(s, item.defender) THEN Err(s) ELSE Ok(s)

PushOne(s, item) ==
    LET ball_moved ==
            /\ HasPlayer(s, item.defender)
            /\ s.players[item.defender].position # NoSquare
            /\ get_ball_position(s) # NoSquare
            /\ is_ball_carried(s)
            /\ get_ball_position(s) = s.players[item.defender].position
    IN IF ~HasPlayer(s, item.defender) THEN Err(s)
       ELSE LET s1 == [s EXCEPT !.players[item.defender].position = item.position]
            IN IF ball_moved /\ Len(s1.balls) > 0
               THEN Ok([s1 EXCEPT !.balls[1].position = item.position])
               ELSE Ok(s1)

\* the chain items i, i-1, .., 1 in this order
RECURSIVE PushFrom(_, _, _)
PushFrom(s, chain, i) ==
    IF i = 0 THEN Ok(s)
    ELSE LET r == PushOne(s, chain[i])
         IN IF r.ok THEN PushFrom(r.gs, chain, i - 1) ELSE r

\* a variant that credits the touchdown to the opponents of the player on the ball
td_info_for_opponent(s) ==
    LET carrier_id == get_ball_carrier(s)
    IN IF carrier_id = None THEN <<>>
       ELSE LET carrier == s.players[carrier_id]
            IN IF ~carrier.knocked_out /\ ~carrier.stunned /\ carrier.up
                  /\ carrier.position # NoSquare
                  /\ IsTouchdownSquare(is_home_team(s, carrier.team), carrier.position)
               THEN <<~is_home_team(s, carrier.team)>>
               ELSE <<>>

\* the touchdown of the player on the ball's square: <<is_home>>, or <<>> for none
td_info(s) ==
    LET carrier_id == get_ball_carrier(s)
    IN IF carrier_id = None THEN <<>>
       ELSE LET carrier == s.players[carrier_id]
            IN IF ~carrier.knocked_out /\ ~carrier.stunned /\ carrier.up
               THEN IF carrier.position # NoSquare
                    THEN IF IsTouchdownSquare(is_home_team(s, carrier.team), carrier.position)
                         THEN <<is_home_team(s, carrier.team)>>
                         ELSE <<>>
                    ELSE <<>>
               ELSE <<>>

\* a variant that knocks out the defender of the last chain item
execute_push_chain_knocks_tail(s) ==
    IF s.block_context = NoneOpt THEN Err(s)
    ELSE LET ctx == s.block_context[1]
             tail == ctx.push_chain[Len(ctx.push_chain)].defender
             moved == PushFrom(s, ctx.push_chain, Len(ctx.push_chain))
         IN IF ~moved.ok THEN moved
            ELSE LET s1 == IF ctx.knock_out
                           THEN [moved.gs EXCEPT !.players[tail].knocked_out = TRUE]
                           ELSE moved.gs
                 IN IF td_info(s1) # <<>>
                    THEN Ok(AddScore([s1 EXCEPT !.procedure = "Touchdown"], td_info(s1)[1]))
                    ELSE Ok(s1)

execute_push_chain(s) ==
    IF s.block_context = NoneOpt THEN Err(s)
    ELSE LET ctx == s.block_context[1]
             moved == PushFrom(s, ctx.push_chain, Len(ctx.push_chain))
         IN IF ~moved.ok THEN moved
            ELSE IF ctx.knock_out /\ ~HasPlayer(moved.gs, ctx.defender) THEN Err(moved.gs)
            ELSE LET s1 == IF ctx.knock_out
                           THEN [moved.gs EXCEPT !.players[ctx.defender].knocked_out = TRUE]
                           ELSE moved.gs
                 IN IF td_info(s1) # <<>>
                    THEN Ok(AddScore([s1 EXCEPT !.procedure = "Touchdown"], td_info(s1)[1]))
                    ELSE Ok(s1)

push_execution(s, action) ==
    IF action.position = NoSquare THEN Err(s)
    ELSE LET u == update_latest_push_position(s, action.position)
         IN IF ~u.ok THEN u
            ELSE IF is_out_of_bounds(action.position) THEN Err(u.gs)
            ELSE IF get_player_at(u.gs, action.position) # None
                 THEN add_chained_push(u.gs, get_player_at(u.gs, action.position))
            ELSE LET r == execute_push_chain(u.gs)
                 IN IF ~r.ok THEN r
                    ELSE IF r.gs.procedure # "Touchdown"
                         THEN Ok([r.gs EXCEPT !.procedure = "FollowUp"])
                         ELSE Ok(r.gs)

\* a variant that ends the player's turn after a blitz as well
follow_up_execution_ends_turn(s, action) ==
    IF action.position = NoSquare THEN Err(s)
    ELSE IF ~HasPlayer(s, s.active_player_id) THEN Err(s)
    ELSE Ok([s EXCEPT !.players[s.active_player_id].has_blocked = TRUE,
                      !.players[s.active_player_id].position = action.position,
                      !.players[s.active_player_id].used = TRUE,
                      !.procedure = "Turn",
                      !.block_context = NoneOpt])

follow_up_execution(s, action) ==
    IF action.position = NoSquare THEN Err(s)
    ELSE IF ~HasPlayer(s, s.active_player_id) THEN Err(s)
    ELSE LET is_blitz == s.parent_procedure = "BlitzAction"
             s1 == [s EXCEPT !.players[s.active_player_id].has_blocked = TRUE,
                             !.players[s.active_player_id].position = action.position]
         IN IF is_blitz
            THEN Ok([s1 EXCEPT !.procedure = "BlitzAction", !.block_context = NoneOpt])
            ELSE Ok([s1 EXCEPT !.players[s.active_player_id].used = TRUE,
                               !.procedure = "Turn",
                               !.block_context = NoneOpt])

----------------------------------------------------------------------------
(* actions/discovery/block.rs *)

\* the squares next to the defender that lie away from the attacker
PushIncluded(attacker_position, defender_position, square) ==
    IF attacker_position[1] = defender_position[1] \/ attacker_position[2] = defender_position[2]
    THEN distance(attacker_position, square) >= 2
    ELSE manhattan_distance(attacker_position, square) >= 3

\* a variant that prefers occupied squares to squares out of bounds
PushSquaresOccupiedFirst(s, squares) ==
    LET IsOut(sq) == is_out_of_bounds(sq)
        IsOccupied(sq) == ~is_out_of_bounds(sq) /\ get_player_at(s, sq) # None
        IsEmpty(sq) == ~is_out_of_bounds(sq) /\ get_player_at(s, sq) = None
        squares_empty == SelectSeq(squares, IsEmpty)
        squares_out == SelectSeq(squares, IsOut)
        squares_occupied == SelectSeq(squares, IsOccupied)
    IN IF squares_empty # <<>> THEN squares_empty
       ELSE IF squares_occupied # <<>> THEN squares_occupied
       ELSE squares_out

PushSquares(s, squares) ==
    LET IsOut(sq) == is_out_of_bounds(sq)
        IsOccupied(sq) == ~is_out_of_bounds(sq) /\ get_player_at(s, sq) # None
        IsEmpty(sq) == ~is_out_of_bounds(sq) /\ get_player_at(s, sq) = None
        squares_empty == SelectSeq(squares, IsEmpty)
        squares_out == SelectSeq(squares, IsOut)
        squares_occupied == SelectSeq(squares, IsOccupied)
    IN IF squares_empty # <<>> THEN squares_empty
       ELSE IF squares_out # <<>> THEN squares_out
       ELSE squares_occupied

PushActions(squares) ==
    IF squares = <<>> THEN <<>>
    ELSE [i \in 1..Len(squares) |-> NewAction("Push", None, squares[i])]

push_discovery(s) ==
    LET s1 == [s EXCEPT !.available_actions = <<>>]
    IN IF s1.block_context = NoneOpt THEN Err(s1)
       ELSE IF Len(s1.block_context[1].push_chain) = 0 THEN Err(s1)
       ELSE LET chain == s1.block_context[1].push_chain
                latest == chain[Len(chain)]
            IN IF ~HasPlayer(s1, latest.attacker) THEN Err(s1)
               ELSE IF s1.players[latest.attacker].position = NoSquare THEN Err(s1)
               ELSE IF ~HasPlayer(s1, latest.defender) THEN Err(s1)
               ELSE IF s1.players[latest.defender].position = NoSquare THEN Err(s1)
               ELSE LET attacker_position == s1.players[latest.attacker].position
                        defender_position == s1.players[latest.defender].position
                        Included(sq) == PushIncluded(attacker_position, defender_position, sq)
                        all_valid_squares ==
                            SelectSeq(get_adjacent_squares(defender_position), Included)
                    IN Ok([s1 EXCEPT !.available_actions =
                              PushActions(PushSquares(s1, all_valid_squares))])

follow_up_discovery(s) ==
    IF ~HasPlayer(s, s.active_player_id) THEN Err(s)
    ELSE IF s.block_context = NoneOpt THEN Err(s)
    ELSE Ok([s EXCEPT !.available_actions =
                << NewAction("FollowUp", None, s.block_context[1].position),
                   NewAction("FollowUp", None, s.players[s.active_player_id].position) >>])

block_discovery(s) ==
    Ok([s EXCEPT !.available_actions =
           IF s.rolls = <<>> THEN <<>>
           ELSE [i \in 1..Len(s.rolls) |-> NewAction(s.rolls[i], None, NoSquare)]])

----------------------------------------------------------------------------
(* model/game.rs: the queries of the turn, movement and pass discovery.    *)

\* The order in which a HashMap yields its entries: unspecified, and the
\* same whenever the same map is iterated again.
RECURSIVE IterationOrder(_)
IterationOrder(set) ==
    IF set = {} THEN <<>>
    ELSE LET first == CHOOSE e \in set : TRUE
         IN <<first>> \o IterationOrder(set \ {first})

\* [ok, players]: the players of `team` next to `position`; Err if one has no position
AdjacentPlayers(s, team, position) ==
    LET ids == IterationOrder(TeamIds(s, team))
        IsNextTo(id) == distance(s.players[id].position, position) = 1
    IN IF \E id \in TeamIds(s, team) : s.players[id].position = NoSquare
       THEN [ok |-> FALSE, players |-> <<>>]
       ELSE [ok |-> TRUE, players |-> SelectSeq(ids, IsNextTo)]

\* a variant that looks at the players of the team itself
get_adjacent_opponents_of_own_team(s, team_id, position) ==
    AdjacentPlayers(s, team_id, position)

get_adjacent_opponents(s, team_id, position) ==
    AdjacentPlayers(s, OppTeam(s, team_id), position)

get_adjacent_teammates(s, team_id, position) ==
    AdjacentPlayers(s, team_id, position)

(* model/constants.rs *)
PASS_MATRIX ==
    << <<0, 1, 1, 1, 2, 2, 2, 3, 3, 3, 3, 4, 4, 4>>,
       <<1, 1, 1, 1, 2, 2, 2, 3, 3, 3, 3, 4, 4, 4>>,
       <<1, 1, 1, 2, 2, 2, 2, 3, 3, 3, 3, 4, 4, 5>>,
       <<1, 1, 2, 2, 2, 2, 2, 3, 3, 3, 4, 4, 4, 5>>,
       <<2, 2, 2, 2, 2, 2, 3, 3, 3, 3, 4, 4, 4, 5>>,
       <<2, 2, 2, 2, 2, 3, 3, 3, 3, 4, 4, 4, 5, 5>>,
       <<2, 2, 2, 2, 3, 3, 3, 3, 3, 4, 4, 4, 5, 5>>,
       <<3, 3, 3, 3, 3, 3, 3, 3, 4, 4, 4, 5, 5, 5>>,
       <<3, 3, 3, 3, 3, 3, 3, 4, 4, 4, 4, 5, 5, 5>>,
       <<3, 3, 3, 3, 3, 4, 4, 4, 4, 4, 5, 5, 5, 5>>,
       <<3, 3, 3, 4, 4, 4, 4, 4, 4, 5, 5, 5, 5, 5>>,
       <<4, 4, 4, 4, 4, 4, 4, 5, 5, 5, 5, 5, 5, 5>>,
       <<4, 4, 4, 4, 4, 5, 5, 5, 5, 5, 5, 5, 5, 5>>,
       <<4, 4, 5, 5, 5, 5, 5, 5, 5, 5, 5, 5, 5, 5>> >>

\* 1 QuickPass, 2 ShortPass, 3 LongPass, 4 LongBomb, 5 HailMary
get_pass_distance(from_position, to_position) ==
    PASS_MATRIX[Abs(from_position[2] - to_position[2]) + 1][Abs(from_position[1] - to_position[1]) + 1]

\* the squares of the pitch, row by row
PitchSquares ==
    [i \in 1..((ARENA_WIDTH - 2) * (ARENA_HEIGHT - 2)) |->
        Sq(1 + ((i - 1) % (ARENA_WIDTH - 2)), 1 + ((i - 1) \div (ARENA_WIDTH - 2)))]

\* the squares a pass from `position` can go to, row by row
get_pass_distances_at(s, position) ==
    LET longest == IF s.weather = "BLIZZARD" THEN 2 ELSE 4
        InRange(sq) ==
            /\ Abs(sq[1] - position[1]) <= 13
            /\ Abs(sq[2] - position[2]) <= 13
            /\ sq # position
            /\ get_pass_distance(position, sq) <= longest
    IN SelectSeq(PitchSquares, InRange)

----------------------------------------------------------------------------
(* actions/core/registry.rs *)

execute_action(s, action) ==
    CASE action.action_type = "StartMove" -> start_move_execution(s, action)
      [] action.action_type = "StartBlock" -> start_block_execution(s, action)
      [] action.action_type = "StartFoul" -> start_foul_execution(s, action)
      [] action.action_type = "StartBlitz" -> start_blitz_execution(s, action)
      [] action.action_type = "StartHandoff" -> start_handoff_execution(s, action)
      [] action.action_type = "StartPass" -> start_pass_execution(s, action)
      [] action.action_type = "EndPlayerTurn" -> end_player_turn_execution(s)
      [] action.action_type = "EndTurn" -> end_turn_execution(s)
      [] action.action_type = "Move" -> move_execution(s, action)
      [] action.action_type = "StandUp" -> stand_up_execution(s)
      [] action.action_type = "Block" -> block_execution(s, action)
      [] OTHER -> Err(s)

rollout_chance_outcomes(s) ==
    CASE s.procedure = "GFI" -> gfi_rollout(s)
      [] OTHER -> RollErr

(* mcts/tree.rs *)
is_random_procedure(procedure) == procedure \in {"BlockRoll", "GFI", "Dodge"}

is_terminal_procedure(procedure) == procedure \in {"EndTurn", "Touchdown", "Turnover"}

----------------------------------------------------------------------------
(* The states the handlers are run on, and the calls made on them.         *)

Player(team, position, ma, ag) ==
    [team |-> team, position |-> position, ma |-> ma, ag |-> ag,
     up |-> TRUE, used |-> FALSE, moves |-> 0, stunned |-> FALSE,
     knocked_out |-> FALSE, has_blocked |-> FALSE]

Ball(position, is_carried) == [position |-> position, is_carried |-> is_carried]

TurnState ==
    [blitz |-> FALSE, quick_snap |-> FALSE, blitz_available |-> TRUE,
     pass_available |-> TRUE, foul_available |-> TRUE, handoff_available |-> TRUE]

\* a GameState in procedure Turn, as tests/common/mod.rs builds it
GameState(players, ball, current_team_id, weather) ==
    [weather |-> weather,
     balls |-> <<ball>>,
     players |-> players,
     score |-> [home |-> 0, away |-> 0],
     turn_state |-> <<TurnState>>,
     procedure |-> "Turn",
     parent_procedure |-> None,
     current_team_id |-> current_team_id,
     active_player_id |-> None,
     rolls |-> <<>>,
     block_context |-> NoneOpt,
     position |-> NoSquare,
     available_actions |-> <<>>,
     active_path |-> NoneOpt,
     game_over |-> FALSE,
     receiving_this_drive |-> None]

Weathers == {"NICE", "BLIZZARD"}

\* The explored window: home acts next to the column x = 0, away next to x = ARENA_WIDTH - 1.
Mirror(team, sq) == IF team = "home" THEN sq ELSE Sq(ARENA_WIDTH - 1 - sq[1], sq[2])

Window(team) == {Mirror(team, Sq(x, y)) : x \in 0..MaxX, y \in 1..MaxY}

Interior(team) == {sq \in Window(team) : ~is_out_of_bounds(sq)}

ActorOf(team) == IF team = "home" THEN "h1" ELSE "a1"

WindowOf(s) == Window(s.current_team_id)

\* the acting player starts next to the scoring column of its team
StartSquare(team) == IF team = "home" THEN Sq(2, 1) ELSE Sq(ARENA_WIDTH - 2, 1)

NoCall == [op |-> "none", ok |-> TRUE]

InitMove ==
    \E cur \in {"home", "away"}, weather \in Weathers, ma \in 1..MaxMa :
    \E q \in Interior(cur), b \in Interior(cur) :
    LET p == StartSquare(cur) IN
        /\ p # q
        /\ gs = GameState(
                  (ActorOf(cur) :> Player(cur, p, ma, 3))
                      @@ (ActorOf(OppTeam(<<>>, cur)) :> Player(OppTeam(<<>>, cur), q, 3, 3)),
                  Ball(b, b \in {p, q}), cur, weather)
        /\ outcomes = <<>>
        /\ last = NoCall
        /\ nodes = <<>>
        /\ result = NoneOpt
        /\ found = <<>>

----------------------------------------------------------------------------
(* The actions discovery offers in a procedure (the callers of the         *)
(* registry execute only discovered actions: mcts/tree.rs).                *)

Free(s, sq) == PlayersAt(s, sq) = {}

OwnReady(s) ==
    {p \in TeamIds(s, s.current_team_id) :
        ~s.players[p].used /\ s.players[p].position # NoSquare}

HasUpOpponentNextTo(s, p) ==
    \E o \in TeamIds(s, OppTeam(s, s.current_team_id)) :
        /\ s.players[o].position # NoSquare
        /\ distance(s.players[o].position, s.players[p].position) = 1
        /\ s.players[o].up

MoveTurnInputs(s) ==
    {NewAction("StartMove", p, NoSquare) : p \in OwnReady(s)}
    \cup {NewAction("EndTurn", None, NoSquare)}

BlockTurnInputs(s) ==
    {NewAction("StartBlitz", p, NoSquare) :
            p \in {r \in OwnReady(s) : s.turn_state[1].blitz_available}}
    \cup {NewAction("StartBlock", p, NoSquare) :
            p \in {r \in OwnReady(s) : s.players[r].up /\ HasUpOpponentNextTo(s, r)}}
    \cup {NewAction("EndTurn", None, NoSquare)}

StepTargets(s, from) ==
    {sq \in WindowOf(s) : distance(sq, from) = 1 /\ Free(s, sq)}

\* the straight runs of 1..n free squares of the window that start next to `from`
StraightRun(from, d, len) ==
    [k \in 1..len |-> Sq(from[1] + k * Directions[d][1], from[2] + k * Directions[d][2])]

PathsFrom(s, from, n) ==
    {path \in {StraightRun(from, d, len) : d \in 1..Len(Directions), len \in 1..n} :
        \A k \in 1..Len(path) : path[k] \in WindowOf(s) /\ Free(s, path[k])}

MoveInputs(s) ==
    LET player == s.players[s.active_player_id]
    IN IF s.active_path # NoneOpt
       THEN IF is_complete(s.active_path[1])
            THEN {NewAction("EndPlayerTurn", None, NoSquare)}
            ELSE {NewAction("Move", None, next_square(s.active_path[1]))}
       ELSE (IF player.up THEN {} ELSE {NewAction("StandUp", None, NoSquare)})
            \cup (IF player.up /\ player.moves < get_ma(player) + 2
                  THEN {NewAction("Move", None, sq) : sq \in StepTargets(s, player.position)}
                       \cup {NewActionWithPath("Move", None, path) :
                               path \in PathsFrom(s, player.position,
                                   Min2(MaxPathLen, get_ma(player) + 2 - player.moves))}
                  ELSE {})
            \cup {NewAction("EndPlayerTurn", None, NoSquare)}

BlockInputs(s) ==
    LET player == s.players[s.active_player_id]
    IN {NewAction("Block", None, s.players[o].position) :
            o \in {r \in TeamIds(s, OppTeam(s, s.current_team_id)) :
                      /\ s.players[r].position # NoSquare
                      /\ distance(s.players[r].position, player.position) = 1
                      /\ s.players[r].up}}

RegistryInputs(s) ==
    CASE s.procedure = "Turn" -> MoveTurnInputs(s)
      [] s.procedure = "MoveAction" -> MoveInputs(s)
      [] s.procedure = "BlitzAction" ->
            MoveInputs(s) \cup
            (IF s.players[s.active_player_id].has_blocked
                \/ (s.active_path # NoneOpt /\ ~is_complete(s.active_path[1]))
             THEN {} ELSE BlockInputs(s))
      [] s.procedure = "BlockAction" ->
            BlockInputs(s) \cup {NewAction("EndPlayerTurn", None, NoSquare)}
      [] OTHER -> {}

----------------------------------------------------------------------------
(* actions/discovery/turn.rs, actions/discovery/block.rs *)

\* [ok, actions]: what turn_discovery pushes for one player of the current team
PlayerTurnActions(s, player_id) ==
    LET player == s.players[player_id]
        turn_state == s.turn_state[1]
        Start(action_type) == NewAction(action_type, player_id, NoSquare)
        starts ==
            <<Start("StartMove")>>
            \o (IF turn_state.blitz_available THEN <<Start("StartBlitz")>> ELSE <<>>)
            \o (IF turn_state.pass_available THEN <<Start("StartPass")>> ELSE <<>>)
            \o (IF turn_state.handoff_available THEN <<Start("StartHandoff")>> ELSE <<>>)
            \o (IF turn_state.foul_available THEN <<Start("StartFoul")>> ELSE <<>>)
        opponents == get_adjacent_opponents(s, s.current_team_id, player.position)
    IN IF player.used \/ player.position = NoSquare THEN [ok |-> TRUE, actions |-> <<>>]
       ELSE IF turn_state.blitz
               /\ get_team_tackle_zones_at(s, s.current_team_id, player.position) > 0
            THEN [ok |-> TRUE, actions |-> <<>>]
       ELSE IF turn_state.quick_snap \/ turn_state.blitz \/ ~player.up
            THEN [ok |-> TRUE, actions |-> starts]
       ELSE IF ~opponents.ok THEN [ok |-> FALSE, actions |-> starts]
       ELSE IF \E i \in 1..Len(opponents.players) : s.players[opponents.players[i]].up
            THEN [ok |-> TRUE, actions |-> Append(starts, Start("StartBlock"))]
            ELSE [ok |-> TRUE, actions |-> starts]

\* the loop over the players of the current team, from the i-th on
RECURSIVE TurnLoop(_, _, _)
TurnLoop(s, ids, i) ==
    IF i > Len(ids)
    THEN Ok([s EXCEPT !.available_actions = Append(@, NewAction("EndTurn", None, NoSquare))])
    ELSE LET one == PlayerTurnActions(s, ids[i])
             s1 == [s EXCEPT !.available_actions = @ \o one.actions]
         IN IF one.ok THEN TurnLoop(s1, ids, i + 1) ELSE Err(s1)

turn_discovery(s) ==
    LET s1 == [s EXCEPT !.available_actions = <<>>]
    IN IF s1.current_team_id = None THEN Ok(s1)
       ELSE IF s1.turn_state = NoneOpt THEN Err(s1)
       ELSE TurnLoop(s1, IterationOrder(TeamIds(s1, s1.current_team_id)), 1)

\* the Block actions on the standing opponents next to the active player
BlockActionsOn(s, opponents) ==
    LET IsUp(id) == s.players[id].up
        up == SelectSeq(opponents, IsUp)
    IN [i \in 1..Len(up) |-> NewAction("Block", None, s.players[up[i]].position)]

block_action_discovery(s) ==
    LET s1 == [s EXCEPT !.available_actions = <<>>]
    IN IF ~HasPlayer(s1, s1.active_player_id) THEN Err(s1)
       ELSE LET player == s1.players[s1.active_player_id]
                opponents == get_adjacent_opponents(s1, player.team, player.position)
            IN IF player.has_blocked THEN Err(s1)
               ELSE IF player.position = NoSquare THEN Err(s1)
               ELSE IF ~opponents.ok THEN Err(s1)
               ELSE Ok([s1 EXCEPT !.available_actions =
                          Append(BlockActionsOn(s1, opponents.players),
                                 NewAction("EndPlayerTurn", None, NoSquare))])

(* pathfinding/astar.rs, actions/discovery/movement.rs, actions/discovery/pass.rs *)

\* the steps a path may take: moves_left + gfis_left, or 1 in a quick snap
PathSteps(s, player) ==
    IF s.turn_state # NoneOpt /\ s.turn_state[1].quick_snap THEN 1
    ELSE Max2(get_ma(player) - player.moves, 0)
         + Min2(Max2(get_ma(player) + 2 - player.moves, 0), 2)

\* Pathfinder::find_all_paths, explored along the straight runs of at most
\* MaxPathLen unoccupied squares of the pitch inside the window
find_all_paths(s, player) ==
    IterationOrder({path \in PathsFrom(s, player.position,
                                       Min2(MaxPathLen, PathSteps(s, player))) :
                       \A k \in 1..Len(path) : ~is_out_of_bounds(path[k])})

PathActions(paths) == [i \in 1..Len(paths) |-> NewActionWithPath("Move", None, paths[i])]

\* a variant that pushes onto the actions already in the state
move_discovery_keeps_actions(s) ==
    IF ~HasPlayer(s, s.active_player_id) THEN Err(s)
    ELSE LET player == s.players[s.active_player_id]
         IN IF s.active_path # NoneOpt
            THEN IF is_complete(s.active_path[1])
                 THEN Ok([s EXCEPT !.available_actions =
                             Append(@, NewAction("EndPlayerTurn", None, NoSquare))])
                 ELSE Ok([s EXCEPT !.available_actions =
                             Append(@, NewAction("Move", None, next_square(s.active_path[1])))])
            ELSE LET stand_up == IF player.up THEN <<>>
                                 ELSE <<NewAction("StandUp", None, NoSquare)>>
                     s2 == [s EXCEPT !.available_actions = @ \o stand_up]
                 IN IF player.position = NoSquare \/ s2.current_team_id = None THEN Err(s2)
                    ELSE Ok([s2 EXCEPT !.available_actions =
                                Append(@ \o PathActions(find_all_paths(s2, player)),
                                       NewAction("EndPlayerTurn", None, NoSquare))])

move_discovery(s) ==
    IF ~HasPlayer(s, s.active_player_id) THEN Err(s)
    ELSE LET player == s.players[s.active_player_id]
             s1 == [s EXCEPT !.available_actions = <<>>]
         IN IF s1.active_path # NoneOpt
            THEN IF is_complete(s1.active_path[1])
                 THEN Ok([s1 EXCEPT !.available_actions =
                             <<NewAction("EndPlayerTurn", None, NoSquare)>>])
                 ELSE Ok([s1 EXCEPT !.available_actions =
                             <<NewAction("Move", None, next_square(s1.active_path[1]))>>])
            ELSE LET stand_up == IF player.up THEN <<>>
                                 ELSE <<NewAction("StandUp", None, NoSquare)>>
                     s2 == [s1 EXCEPT !.available_actions = stand_up]
                 IN IF player.position = NoSquare \/ s2.current_team_id = None THEN Err(s2)
                    ELSE Ok([s2 EXCEPT !.available_actions =
                                Append(stand_up \o PathActions(find_all_paths(s2, player)),
                                       NewAction("EndPlayerTurn", None, NoSquare))])

PathIncomplete(s) == s.active_path # NoneOpt /\ ~is_complete(s.active_path[1])

\* the actions `action_type` on the squares of `players`, each inserted at the front
RECURSIVE InsertedFirst(_, _, _, _)
InsertedFirst(s, action_type, players, actions) ==
    IF players = <<>> THEN actions
    ELSE InsertedFirst(s, action_type, Tail(players),
                       <<NewAction(action_type, None, s.players[Head(players)].position)>>
                           \o actions)

handoff_discovery(s) ==
    LET r == move_discovery(s)
        s1 == r.gs
    IN IF ~r.ok THEN r
       ELSE IF PathIncomplete(s1) THEN r
       ELSE IF ~is_active_player_carrying_ball(s1) THEN r
       ELSE IF s1.current_team_id = None THEN Err(s1)
       ELSE IF s1.players[s1.active_player_id].position = NoSquare THEN Err(s1)
       ELSE LET teammates == get_adjacent_teammates(s1, s1.current_team_id,
                                 s1.players[s1.active_player_id].position)
                IsUp(id) == s1.players[id].up
            IN IF ~teammates.ok THEN Err(s1)
               ELSE Ok([s1 EXCEPT !.available_actions =
                          InsertedFirst(s1, "Handoff", SelectSeq(teammates.players, IsUp), @)])

blitz_discovery(s) ==
    LET r == move_discovery(s)
        s1 == r.gs
        active_player == s1.players[s1.active_player_id]
        moves_needed == IF active_player.up THEN 1 ELSE 4
    IN IF ~r.ok THEN r
       ELSE IF PathIncomplete(s1) THEN r
       ELSE IF active_player.has_blocked THEN r
       ELSE IF s1.current_team_id = None THEN Err(s1)
       ELSE IF active_player.moves + moves_needed > get_ma(active_player) + 2 THEN r
       ELSE IF active_player.position = NoSquare THEN Err(s1)
       ELSE LET opponents == get_adjacent_opponents(s1, s1.current_team_id,
                                                    active_player.position)
                IsUp(id) == s1.players[id].up
            IN IF ~opponents.ok THEN Err(s1)
               ELSE Ok([s1 EXCEPT !.available_actions =
                          InsertedFirst(s1, "Block", SelectSeq(opponents.players, IsUp), @)])

foul_discovery(s) ==
    LET r == move_discovery(s)
        s1 == r.gs
        player == s1.players[s1.active_player_id]
    IN IF ~r.ok THEN r
       ELSE IF PathIncomplete(s1) THEN r
       ELSE IF player.has_blocked THEN Err(s1)
       ELSE IF player.position = NoSquare THEN Err(s1)
       ELSE LET opponents == get_adjacent_opponents(s1, player.team, player.position)
                IsDown(id) == ~s1.players[id].up
            IN IF ~opponents.ok THEN Err(s1)
               ELSE Ok([s1 EXCEPT !.available_actions =
                          InsertedFirst(s1, "Foul", SelectSeq(opponents.players, IsDown), @)])

\* the Pass actions on `squares`, each inserted at the front
PassesInsertedFirst(squares, actions) ==
    [i \in 1..Len(squares) |-> NewAction("Pass", None, squares[Len(squares) + 1 - i])]
        \o actions

pass_action_discovery(s) ==
    LET r == move_discovery(s)
        s1 == r.gs
    IN IF ~r.ok THEN r
       ELSE IF s1.players[s1.active_player_id].position = NoSquare THEN Err(s1)
       ELSE IF ~is_active_player_carrying_ball(s1) THEN r
       ELSE Ok([s1 EXCEPT !.available_actions =
                  PassesInsertedFirst(
                      get_pass_distances_at(s1, s1.players[s1.active_player_id].position), @)])

(* actions/discovery/setup.rs *)
is_team_side(s, position, team_id) ==
    IF is_home_team(s, team_id) THEN position[1] >= ARENA_WIDTH \div 2
    ELSE position[1] < ARENA_WIDTH \div 2

\* the SelectPlayer actions of the loop over the players of the receiving
\* team, in the order of its HashMap
HighKickPlayers(s, receiving_team_id, ids) ==
    LET Eligible(id) ==
            /\ s.players[id].position # NoSquare
            /\ get_team_tackle_zones_at(s, receiving_team_id, s.players[id].position) = 0
        eligible == SelectSeq(ids, Eligible)
    IN [i \in 1..Len(eligible) |-> NewAction("SelectPlayer", eligible[i], NoSquare)]

high_kick_discovery(s) ==
    LET s1 == [s EXCEPT !.available_actions = <<>>]
        receiving_team_id == s1.receiving_this_drive
        ball_position == get_ball_position(s1)
    IN IF receiving_team_id = None THEN Ok(s1)
       ELSE IF ball_position = NoSquare THEN Err(s1)
       ELSE IF /\ is_team_side(s1, ball_position, receiving_team_id)
               /\ get_player_at(s1, ball_position) = None
       THEN Ok([s1 EXCEPT !.available_actions =
                   Append(HighKickPlayers(
                              s1, receiving_team_id,
                              IterationOrder(TeamIds(s1, IF is_home_team(s1, receiving_team_id)
                                                         THEN "home" ELSE "away"))),
                          NewAction("SelectNone", None, NoSquare))])
       ELSE Ok(s1)

(* actions/core/registry.rs *)
discover_actions(s) ==
    CASE s.procedure = "Turn" -> turn_discovery(s)
      [] s.procedure = "HighKick" -> high_kick_discovery(s)
      [] s.procedure = "BlockAction" -> block_action_discovery(s)
      [] s.procedure = "Block" -> block_discovery(s)
      [] s.procedure = "FollowUp" -> follow_up_discovery(s)
      [] s.procedure = "Push" -> push_discovery(s)
      [] s.procedure = "BlitzAction" -> blitz_discovery(s)
      [] s.procedure = "FoulAction" -> foul_discovery(s)
      [] s.procedure = "HandoffAction" -> handoff_discovery(s)
      [] s.procedure = "MoveAction" -> move_discovery(s)
      [] s.procedure = "PassAction" -> pass_action_discovery(s)
      [] s.procedure \in {"EndTurn", "Turnover", "Touchdown"} -> Ok(s)
      [] OTHER -> Err(s)

Idle == last.ok /\ outcomes = <<>>

\* ActionRegistry::execute_action on a discovered action
ExecuteAction ==
    /\ Idle
    /\ \E action \in RegistryInputs(gs) :
          LET r == execute_action(gs, action)
          IN /\ gs' = r.gs
             /\ last' = [op |-> action.action_type, ok |-> r.ok]
    /\ UNCHANGED outcomes
    /\ UNCHANGED <<nodes, result, found>>

\* ActionRegistry::rollout_chance_outcomes on a chance node (MCTSTree::expand_chance_node)
RolloutChanceOutcomes ==
    /\ Idle
    /\ is_random_procedure(gs.procedure)
    /\ LET r == rollout_chance_outcomes(gs)
       IN /\ outcomes' = r.outcomes
          /\ last' = [op |-> "rollout_chance_outcomes", ok |-> r.ok]
    /\ UNCHANGED gs
    /\ UNCHANGED <<nodes, result, found>>

\* dodge_rollout called on a Dodge state
DodgeRollout ==
    /\ Idle
    /\ gs.procedure = "Dodge"
    /\ LET r == dodge_rollout(gs)
       IN /\ outcomes' = r.outcomes
          /\ last' = [op |-> "dodge_rollout", ok |-> r.ok]
    /\ UNCHANGED gs
    /\ UNCHANGED <<nodes, result, found>>

\* one outcome of the rollout becomes the state of a child node
TakeOutcome ==
    /\ last.ok
    /\ outcomes # <<>>
    /\ \E i \in 1..Len(outcomes) :
          /\ gs' = outcomes[i].resulting_state
          /\ last' = [op |-> "outcome", ok |-> TRUE]
    /\ outcomes' = <<>>
    /\ UNCHANGED <<nodes, result, found>>

NextMove == ExecuteAction \/ RolloutChanceOutcomes \/ DodgeRollout \/ TakeOutcome

SpecMove == InitMove /\ [][NextMove]_vars

----------------------------------------------------------------------------
(* The block procedures: the home player h1 on AttackerSquare blocks or     *)
(* blitzes the away player a1 next to it; up to MaxBystanders further       *)
(* players stand on the squares a1 can be pushed to and on the squares      *)
(* behind those.                                                            *)

AttackerSquare == Sq(2, 2)

BystanderIds == <<"a2", "h2", "a3", "h3", "a4", "h4">>

BystanderTeams == <<"away", "home", "away", "home", "away", "home">>

Neighbours(sq) == {Sq(sq[1] + dx, sq[2] + dy) : dx \in -1..1, dy \in -1..1} \ {sq}

\* the in-bounds squares a player on `to` can be pushed to by a player on `from`
Behind(from, to) ==
    {sq \in Neighbours(to) : PushIncluded(from, to, sq) /\ ~is_out_of_bounds(sq)}

BystanderSquares(defender_square) ==
    Behind(AttackerSquare, defender_square)
    \cup UNION {Behind(defender_square, sq) : sq \in Behind(AttackerSquare, defender_square)}

Rank(sq) == sq[1] * ARENA_HEIGHT + sq[2]

RECURSIVE InRankOrder(_)
InRankOrder(squares) ==
    IF squares = {} THEN <<>>
    ELSE LET first == CHOOSE sq \in squares : \A other \in squares : Rank(sq) <= Rank(other)
         IN <<first>> \o InRankOrder(squares \ {first})

BlockPlayers(defender_square, bystanders) ==
    LET placed == InRankOrder(bystanders)
    IN [id \in {"h1", "a1"} \cup {BystanderIds[i] : i \in 1..Len(placed)} |->
            IF id = "h1" THEN Player("home", AttackerSquare, 3, 3)
            ELSE IF id = "a1" THEN Player("away", defender_square, 3, 3)
            ELSE LET i == CHOOSE k \in 1..Len(placed) : BystanderIds[k] = id
                 IN Player(BystanderTeams[i], placed[i], 3, 3)]

InitBlock ==
    \E defender_square \in {sq \in Neighbours(AttackerSquare) : ~is_out_of_bounds(sq)} :
    \E bystanders \in SUBSET BystanderSquares(defender_square) :
    \E b \in {AttackerSquare, defender_square} \cup bystanders :
        /\ Cardinality(bystanders) <= MaxBystanders
        /\ gs = GameState(BlockPlayers(defender_square, bystanders), Ball(b, TRUE),
                          "home", "NICE")
        /\ outcomes = <<>>
        /\ last = NoCall
        /\ nodes = <<>>
        /\ result = NoneOpt
        /\ found = <<>>

\* the actions offered to h1 in the turn and in its block or blitz action
BlockFamilyInputs(s) ==
    CASE s.procedure = "Turn" ->
            {a \in BlockTurnInputs(s) : a.player \in {"h1", None}}
      [] s.procedure = "BlockAction" ->
            BlockInputs(s) \cup {NewAction("EndPlayerTurn", None, NoSquare)}
      [] s.procedure = "BlitzAction" ->
            (IF s.players[s.active_player_id].has_blocked THEN {} ELSE BlockInputs(s))
            \cup {NewAction("EndPlayerTurn", None, NoSquare)}
      [] OTHER -> {}

\* ActionRegistry::execute_action on an action of the turn, block or blitz
ExecuteBlockAction ==
    /\ Idle
    /\ \E action \in BlockFamilyInputs(gs) :
          LET r == execute_action(gs, action)
          IN /\ gs' = r.gs
             /\ last' = [op |-> action.action_type, ok |-> r.ok]
    /\ UNCHANGED outcomes
    /\ UNCHANGED <<nodes, result, found>>

\* block_rollout called on a BlockRoll state
BlockRollout ==
    /\ Idle
    /\ gs.procedure = "BlockRoll"
    /\ LET r == block_rollout(gs)
       IN /\ outcomes' = r.outcomes
          /\ last' = [op |-> "block_rollout", ok |-> r.ok]
    /\ UNCHANGED gs
    /\ UNCHANGED <<nodes, result, found>>

\* ActionRegistry::discover_actions on the state of a new decision node
DiscoverActions ==
    /\ Idle
    /\ gs.procedure \in {"Block", "Push", "FollowUp"}
    /\ last.op # "discover_actions"
    /\ LET r == discover_actions(gs)
       IN /\ gs' = r.gs
          /\ last' = [op |-> "discover_actions", ok |-> r.ok]
    /\ UNCHANGED outcomes
    /\ UNCHANGED <<nodes, result, found>>

Discovered == Idle /\ last.op = "discover_actions"

DiscoveredActions(s) == {s.available_actions[i] : i \in 1..Len(s.available_actions)}

select_execution(s, action) ==
    CASE action.action_type = "SelectAttackerDown" -> select_attacker_down_execution(s)
      [] action.action_type = "SelectBothDown" -> select_both_down_execution(s)
      [] action.action_type = "SelectPush" -> select_push_execution(s)
      [] action.action_type = "SelectDefenderStumbles" -> select_defender_stumbles_execution(s)
      [] action.action_type = "SelectDefenderDown" -> select_defender_down_execution(s)
      [] OTHER -> Err(s)

\* the execution of the discovered block die
SelectExecution ==
    /\ Discovered
    /\ gs.procedure = "Block"
    /\ \E action \in DiscoveredActions(gs) :
          LET r == select_execution(gs, action)
          IN /\ gs' = r.gs
             /\ last' = [op |-> action.action_type, ok |-> r.ok]
    /\ UNCHANGED outcomes
    /\ UNCHANGED <<nodes, result, found>>

\* push_execution on a discovered Push action
PushExecution ==
    /\ Discovered
    /\ gs.procedure = "Push"
    /\ \E action \in DiscoveredActions(gs) :
          LET r == push_execution(gs, action)
          IN /\ gs' = r.gs
             /\ last' = [op |-> "Push", ok |-> r.ok]
    /\ UNCHANGED outcomes
    /\ UNCHANGED <<nodes, result, found>>

\* follow_up_execution on a discovered FollowUp action
FollowUpExecution ==
    /\ Discovered
    /\ gs.procedure = "FollowUp"
    /\ \E action \in DiscoveredActions(gs) :
          LET r == follow_up_execution(gs, action)
          IN /\ gs' = r.gs
             /\ last' = [op |-> "FollowUp", ok |-> r.ok]
    /\ UNCHANGED outcomes
    /\ UNCHANGED <<nodes, result, found>>

NextBlock ==
    \/ ExecuteBlockAction
    \/ RolloutChanceOutcomes
    \/ BlockRollout
    \/ TakeOutcome
    \/ DiscoverActions
    \/ SelectExecution
    \/ PushExecution
    \/ FollowUpExecution

SpecBlock == InitBlock /\ [][NextBlock]_vars

----------------------------------------------------------------------------
(* The push next to the home scoring column (tests/push_touchdown_tests.rs): *)
(* the away player a1 on PushAttackerSquare, in its block action, blocks    *)
(* the home player h1 next to it; up to MaxBystanders further players stand *)
(* on the squares h1 can be pushed to and on the squares behind those; the  *)
(* ball lies on one of these squares and is carried if a player stands on   *)
(* it.                                                                      *)

PushAttackerSquare == Sq(3, 7)

PushBystanderSquares(defender_square) ==
    Behind(PushAttackerSquare, defender_square)
    \cup UNION {Behind(defender_square, sq) : sq \in Behind(PushAttackerSquare, defender_square)}

PushTouchdownPlayers(defender_square, bystanders) ==
    LET placed == InRankOrder(bystanders)
    IN [id \in {"h1", "a1"} \cup {BystanderIds[i] : i \in 1..Len(placed)} |->
            IF id = "a1" THEN Player("away", PushAttackerSquare, 4, 3)
            ELSE IF id = "h1" THEN Player("home", defender_square, 4, 3)
            ELSE LET i == CHOOSE k \in 1..Len(placed) : BystanderIds[k] = id
                 IN Player(BystanderTeams[i], placed[i], 3, 3)]

InitPushTouchdown ==
    \E defender_square \in Neighbours(PushAttackerSquare) :
    \E bystanders \in SUBSET PushBystanderSquares(defender_square) :
    \E b \in {PushAttackerSquare, defender_square} \cup PushBystanderSquares(defender_square) :
        /\ Cardinality(bystanders) <= MaxBystanders
        /\ gs = [GameState(PushTouchdownPlayers(defender_square, bystanders),
                           Ball(b, b \in {PushAttackerSquare, defender_square} \cup bystanders),
                           "away", "NICE")
                    EXCEPT !.procedure = "BlockAction", !.active_player_id = "a1"]
        /\ outcomes = <<>>
        /\ last = NoCall
        /\ nodes = <<>>
        /\ result = NoneOpt
        /\ found = <<>>

SpecPushTouchdown == InitPushTouchdown /\ [][NextBlock]_vars

----------------------------------------------------------------------------
(* The turn of a team: its actor next to its scoring column, a teammate    *)
(* next to the actor and one opponent, standing or prone, in the window.   *)
(* Every decision is discovered by ActionRegistry::discover_actions and    *)
(* one of the discovered actions is executed (mcts/tree.rs); the teammate  *)
(* takes every action but Move.                                            *)

MateOf(team) == IF team = "home" THEN "h2" ELSE "a2"

MateSquare(team) == Mirror(team, Sq(1, 2))

InitTurn ==
    \E cur \in {"home", "away"}, ma \in 1..MaxMa, opponent_up \in BOOLEAN :
    \E q \in Interior(cur) \ {StartSquare(cur), MateSquare(cur)} :
    \E b \in {StartSquare(cur), MateSquare(cur), q} :
        /\ gs = GameState(
                  (ActorOf(cur) :> Player(cur, StartSquare(cur), ma, 3))
                      @@ (MateOf(cur) :> Player(cur, MateSquare(cur), 1, 3))
                      @@ (ActorOf(OppTeam(<<>>, cur)) :>
                              [Player(OppTeam(<<>>, cur), q, 3, 3) EXCEPT !.up = opponent_up]),
                  Ball(b, TRUE), cur, "NICE")
        /\ outcomes = <<>>
        /\ last = NoCall
        /\ nodes = <<>>
        /\ result = NoneOpt
        /\ found = <<>>

\* ActionRegistry::discover_actions on the state of a new decision node
Discover ==
    /\ Idle
    /\ ~is_random_procedure(gs.procedure)
    /\ last.op # "discover_actions"
    /\ LET r == discover_actions(gs)
       IN /\ gs' = r.gs
          /\ last' = [op |-> "discover_actions", ok |-> r.ok]
    /\ UNCHANGED outcomes
    /\ UNCHANGED <<nodes, result, found>>

\* the discovered actions that are tried
Tried(s) ==
    {action \in DiscoveredActions(s) :
        action.action_type = "Move" => s.active_player_id = ActorOf(s.current_team_id)}

\* ActionRegistry::execute_action on a discovered action
ExecuteDiscovered ==
    /\ Discovered
    /\ ~is_terminal_procedure(gs.procedure)
    /\ gs.procedure \notin {"Block", "Push", "FollowUp"}
    /\ \E action \in Tried(gs) :
          LET r == execute_action(gs, action)
          IN /\ gs' = r.gs
             /\ last' = [op |-> action.action_type, ok |-> r.ok]
    /\ UNCHANGED outcomes
    /\ UNCHANGED <<nodes, result, found>>

NextTurn ==
    \/ Discover
    \/ ExecuteDiscovered
    \/ RolloutChanceOutcomes
    \/ DodgeRollout
    \/ BlockRollout
    \/ TakeOutcome
    \/ SelectExecution
    \/ PushExecution
    \/ FollowUpExecution

SpecTurn == InitTurn /\ [][NextTurn]_vars

\* a turn in which the acting player may lie on the pitch and may have used
\* part of its movement allowance
InitAllowance ==
    \E cur \in {"home", "away"}, ma \in 1..MaxMa, up \in BOOLEAN :
    \E moves \in 0..ma :
    \E q \in Interior(cur) \ {StartSquare(cur), MateSquare(cur)} :
    \E b \in {StartSquare(cur), q} :
        /\ gs = GameState(
                  (ActorOf(cur) :>
                       [Player(cur, StartSquare(cur), ma, 3) EXCEPT !.up = up,
                                                                    !.moves = moves])
                      @@ (MateOf(cur) :> Player(cur, MateSquare(cur), 1, 3))
                      @@ (ActorOf(OppTeam(<<>>, cur)) :> Player(OppTeam(<<>>, cur), q, 3, 3)),
                  Ball(b, TRUE), cur, "NICE")
        /\ outcomes = <<>>
        /\ last = NoCall
        /\ nodes = <<>>
        /\ result = NoneOpt
        /\ found = <<>>

\* the actions of a move: Move steps, StandUp and EndPlayerTurn
MoveActionTypes == {"Move", "StandUp", "EndPlayerTurn"}

\* ActionRegistry::execute_action on StartMove or on a discovered action of a move
ExecuteMoveDiscovered ==
    /\ Discovered
    /\ gs.procedure \in {"Turn", "MoveAction"}
    /\ \E action \in Tried(gs) :
          /\ action.action_type \in MoveActionTypes \cup {"StartMove"}
          /\ LET r == execute_action(gs, action)
             IN /\ gs' = r.gs
                /\ last' = [op |-> action.action_type, ok |-> r.ok]
    /\ UNCHANGED outcomes
    /\ UNCHANGED <<nodes, result, found>>

NextAllowance ==
    \/ Discover
    \/ ExecuteMoveDiscovered
    \/ RolloutChanceOutcomes
    \/ DodgeRollout
    \/ TakeOutcome

SpecAllowance == InitAllowance /\ [][NextAllowance]_vars

\* the turn of a team, or the block next to the home scoring column with no
\* player around it
InitScore ==
    \/ InitTurn
    \/ InitPushTouchdown /\ Cardinality(DOMAIN gs.players) = 2

SpecScore == InitScore /\ [][NextTurn]_vars

----------------------------------------------------------------------------
(* ActionRegistry::execute_action called with any action, discovered or    *)
(* not, in the turn of the home team or in a move, block or blitz of h1.   *)

ExecuteProcedures == {"Turn", "MoveAction", "BlockAction", "BlitzAction"}

InitExecute ==
    \E procedure \in ExecuteProcedures :
    \E defender_square \in {sq \in Neighbours(AttackerSquare) : ~is_out_of_bounds(sq)} :
    \E bystanders \in SUBSET BystanderSquares(defender_square) :
        /\ Cardinality(bystanders) <= 1
        /\ gs = [GameState(BlockPlayers(defender_square, bystanders),
                           Ball(AttackerSquare, TRUE), "home", "NICE")
                    EXCEPT !.procedure = procedure,
                           !.parent_procedure = IF procedure = "Turn" THEN None ELSE procedure,
                           !.active_player_id = IF procedure = "Turn" THEN None ELSE "h1"]
        /\ outcomes = <<>>
        /\ last = NoCall
        /\ nodes = <<>>
        /\ result = NoneOpt
        /\ found = <<>>

\* the action types ActionRegistry::execute_action dispatches
ExecutedActionTypes ==
    {"StartMove", "StartBlock", "StartFoul", "StartBlitz", "StartHandoff", "StartPass",
     "EndPlayerTurn", "EndTurn", "Move", "StandUp", "Block"}

\* actions of every dispatched type and of two types that are not, with and
\* without a player and a square
ExecuteInputs ==
    {NewAction(action_type, player, position) :
        action_type \in ExecutedActionTypes \cup {"SelectPush", "Push"},
        player \in {None, "h1"},
        position \in {NoSquare} \cup Neighbours(AttackerSquare)}

\* ActionRegistry::execute_action
ExecuteInput ==
    /\ last = NoCall
    /\ \E action \in ExecuteInputs :
          LET r == execute_action(gs, action)
          IN /\ gs' = r.gs
             /\ last' = [op |-> action.action_type, ok |-> r.ok]
    /\ UNCHANGED outcomes
    /\ UNCHANGED <<nodes, result, found>>

NextExecute == ExecuteInput

SpecExecute == InitExecute /\ [][NextExecute]_vars

----------------------------------------------------------------------------
(* Two Action values, built by Action::new and Action::new_with_path, that *)
(* are compared and hashed, as the tests of model/action.rs do.            *)

ActionTypes == {"Move", "Block", "Handoff"}

ActionPlayers == {None, "h1", "h2"}

ActionSquares == {Sq(1, 1), Sq(2, 2)}

\* the squares of the attached paths; the last one is the target
ActionPaths == {<<Sq(1, 1)>>, <<Sq(2, 2)>>, <<Sq(1, 1), Sq(2, 2)>>, <<Sq(2, 1), Sq(2, 2)>>}

Actions ==
    {NewAction(action_type, player, position) :
        action_type \in ActionTypes, player \in ActionPlayers,
        position \in ActionSquares \cup {NoSquare}}
    \cup {NewActionWithPath(action_type, player, squares) :
             action_type \in ActionTypes, player \in ActionPlayers, squares \in ActionPaths}

InitAction ==
    \E self \in Actions, other \in Actions :
        /\ gs = [GameState(<<>>, Ball(Sq(1, 1), FALSE), "home", "NICE")
                    EXCEPT !.available_actions = <<self, other>>]
        /\ outcomes = <<>>
        /\ last = NoCall
        /\ nodes = <<>>
        /\ result = NoneOpt
        /\ found = <<>>

\* self == other
CompareActions ==
    /\ last = NoCall
    /\ last' = [op |-> "eq", ok |-> eq(gs.available_actions[1], gs.available_actions[2])]
    /\ UNCHANGED <<gs, outcomes>>
    /\ UNCHANGED <<nodes, result, found>>

\* the hashes of the two actions are compared
HashActions ==
    /\ last = NoCall
    /\ last' = [op |-> "hash",
                ok |-> hash(gs.available_actions[1]) = hash(gs.available_actions[2])]
    /\ UNCHANGED <<gs, outcomes>>
    /\ UNCHANGED <<nodes, result, found>>

NextAction ==
    \/ CompareActions
    \/ HashActions

SpecAction == InitAction /\ [][NextAction]_vars

----------------------------------------------------------------------------
(* The start of a decision of a turn: two players of the acting team and   *)
(* two of the other, on the pitch or off it (a player with no position is  *)
(* in the reserves), standing or prone, used or not, in a normal turn, a   *)
(* blitz turn or a quick snap.                                             *)

Place(team, sq) == IF sq = NoSquare THEN NoSquare ELSE Mirror(team, sq)

TurnPlayer(team, side, sq, up, used) ==
    [Player(team, Place(side, sq), 3, 3) EXCEPT !.up = up, !.used = used]

InitTurnDiscovery ==
    \E cur \in {"home", "away"}, blitz \in BOOLEAN, quick_snap \in BOOLEAN :
    \E mate \in {Sq(3, 2), NoSquare}, other1 \in {Sq(1, 1), Sq(9, 9), NoSquare},
       other2 \in {Sq(4, 3), NoSquare} :
    \E up \in [1..4 -> BOOLEAN], used \in [1..2 -> BOOLEAN] :
    LET opp == OppTeam(<<>>, cur) IN
        /\ gs = [GameState(
                    (ActorOf(cur) :> TurnPlayer(cur, cur, Sq(2, 2), up[1], used[1]))
                        @@ (MateOf(cur) :> TurnPlayer(cur, cur, mate, up[2], used[2]))
                        @@ (ActorOf(opp) :> TurnPlayer(opp, cur, other1, up[3], FALSE))
                        @@ (MateOf(opp) :> TurnPlayer(opp, cur, other2, up[4], FALSE)),
                    Ball(Mirror(cur, Sq(2, 2)), TRUE), cur, "NICE")
                 EXCEPT !.turn_state[1].blitz = blitz,
                        !.turn_state[1].quick_snap = quick_snap]
        /\ outcomes = <<>>
        /\ last = NoCall
        /\ nodes = <<>>
        /\ result = NoneOpt
        /\ found = <<>>

\* ActionRegistry::execute_action on an action discovered for the Turn procedure
StartDiscovered ==
    /\ Discovered
    /\ gs.procedure = "Turn"
    /\ \E action \in DiscoveredActions(gs) :
          LET r == execute_action(gs, action)
          IN /\ gs' = r.gs
             /\ last' = [op |-> action.action_type, ok |-> r.ok]
    /\ UNCHANGED outcomes
    /\ UNCHANGED <<nodes, result, found>>

NextTurnDiscovery ==
    \/ Discover
    \/ StartDiscovered

SpecTurnDiscovery == InitTurnDiscovery /\ [][NextTurnDiscovery]_vars

----------------------------------------------------------------------------
(* mcts/node.rs *)
(* An MCTSNode is [state, node_type, parent, decision_children,            *)
(* untried_actions, chance_children, chance_probability, visits,           *)
(* total_score, is_terminal]. parent is NoneOpt or <<index>>;               *)
(* indices count from 0 as in the arena (Vec<MCTSNode>).                   *)
(* decision_children (HashMap<Action, usize>) is the set of its entries    *)
(* [action, child]; chance_probability is in sixths; total_score is in     *)
(* units of the evaluator's 1.0.                                           *)

ONE == 6   \* the probability 1.0, in sixths

UntriedTypesPruned == {"StartBlitz", "StartPass", "StartHandoff", "StartFoul"}

\* the filter of new_decision_node
prune_actions(available_actions) ==
    LET Supported(action) == action.action_type \notin UntriedTypesPruned
    IN SelectSeq(available_actions, Supported)

\* a variant of the terminal test that ignores the procedure
is_terminal_without_procedure(state, untried_actions) ==
    untried_actions = <<>> \/ state.game_over

\* the terminal test of new_decision_node
is_terminal_state(state, untried_actions) ==
    \/ untried_actions = <<>>
    \/ state.game_over
    \/ is_terminal_procedure(state.procedure)

new_chance_node(state, parent, probability) ==
    [state |-> state, node_type |-> "Chance", parent |-> parent,
     decision_children |-> {}, untried_actions |-> <<>>, chance_children |-> <<>>,
     chance_probability |-> probability, visits |-> 0, total_score |-> 0,
     is_terminal |-> FALSE]

new_decision_node(state, parent, probability) ==
    LET untried == prune_actions(state.available_actions)
    IN [state |-> state, node_type |-> "Decision", parent |-> parent,
        decision_children |-> {}, untried_actions |-> untried, chance_children |-> <<>>,
        chance_probability |-> probability, visits |-> 0, total_score |-> 0,
        is_terminal |-> is_terminal_state(state, untried)]

add_visit(node, score) ==
    [node EXCEPT !.visits = @ + 1, !.total_score = @ + score]

is_fully_expanded(node) ==
    IF node.node_type = "Decision"
    THEN node.is_terminal \/ node.untried_actions = <<>>
    ELSE node.chance_children # <<>>

----------------------------------------------------------------------------
(* mcts/tree.rs *)

root_index == 0

\* self.nodes[node_index]
NodeAt(ns, node_index) == ns[node_index + 1]

TreeOk(ns, index) == [ok |-> TRUE, nodes |-> ns, index |-> index]
TreeErr(ns) == [ok |-> FALSE, nodes |-> ns, index |-> None]

\* the root of the discovered state
RootOf(discovered) ==
    IF ~discovered.ok THEN TreeErr(<<>>)
    ELSE TreeOk(<<new_decision_node(discovered.gs, NoneOpt, ONE)>>, root_index)

\* MCTSTree::new
MCTSTree_new(initial_state) == RootOf(discover_actions(initial_state))

\* HashMap::insert: the child of an equal key is replaced, the key is kept
insert(children, action, child_index) ==
    IF \E e \in children : eq(e.action, action)
    THEN {IF eq(e.action, action) THEN [e EXCEPT !.child = child_index] ELSE e :
             e \in children}
    ELSE children \cup {[action |-> action, child |-> child_index]}

\* self.nodes.push(child) and the entry of the parent
PushDecisionChild(ns, node_index, action, child) ==
    TreeOk([Append(ns, child) EXCEPT ![node_index + 1].decision_children =
                                        insert(@, action, Len(ns))],
           Len(ns))

\* a variant of the expansion that records no parent on the new node
expand_decision_node_without_parent(ns, node_index) ==
    IF NodeAt(ns, node_index).untried_actions = <<>> \/ NodeAt(ns, node_index).is_terminal
    THEN TreeErr(ns)
    ELSE PushDecisionChild(
             [ns EXCEPT ![node_index + 1].untried_actions = Tail(@)], node_index,
             Head(NodeAt(ns, node_index).untried_actions),
             new_chance_node(NodeAt(ns, node_index).state, NoneOpt, ONE))

\* expand_decision_node from the result of discover_actions on
PushDiscovered(removed, node_index, action, discovered) ==
    IF ~discovered.ok THEN TreeErr(removed)
    ELSE PushDecisionChild(removed, node_index, action,
                           new_decision_node(discovered.gs, <<node_index>>, ONE))

\* expand_decision_node from the result of execute_action on
PushExecuted(removed, node_index, action, executed) ==
    IF ~executed.ok THEN TreeErr(removed)
    ELSE IF is_random_procedure(executed.gs.procedure)
    THEN PushDecisionChild(removed, node_index, action,
                           new_chance_node(executed.gs, <<node_index>>, ONE))
    ELSE PushDiscovered(removed, node_index, action, discover_actions(executed.gs))

expand_decision_node(ns, node_index) ==
    IF NodeAt(ns, node_index).untried_actions = <<>> THEN TreeErr(ns)
    ELSE IF NodeAt(ns, node_index).is_terminal THEN TreeErr(ns)
    ELSE PushExecuted([ns EXCEPT ![node_index + 1].untried_actions = Tail(@)],
                      node_index,
                      Head(NodeAt(ns, node_index).untried_actions),
                      execute_action(NodeAt(ns, node_index).state,
                                     Head(NodeAt(ns, node_index).untried_actions)))

\* a variant of the child of an outcome that is a chance node whatever the
\* procedure of the resulting state
OutcomeChild_always_chance(chance_node_index, outcome, discovered) ==
    <<new_chance_node(outcome.resulting_state, <<chance_node_index>>,
                      outcome.probability)>>

\* the child node of an outcome: NoneOpt when discover_actions fails on the
\* resulting state of an outcome that is not random
OutcomeChild(chance_node_index, outcome, discovered) ==
    IF is_random_procedure(outcome.resulting_state.procedure)
    THEN <<new_chance_node(outcome.resulting_state, <<chance_node_index>>,
                           outcome.probability)>>
    ELSE IF ~discovered.ok THEN NoneOpt
    ELSE <<new_decision_node(discovered.gs, <<chance_node_index>>, outcome.probability)>>

\* self.nodes.push(child_node) and self.nodes[chance_node_index].chance_children.push
PushChanceChild(ns, chance_node_index, child) ==
    IF child = NoneOpt THEN TreeErr(ns)
    ELSE TreeOk([Append(ns, child[1]) EXCEPT ![chance_node_index + 1].chance_children =
                                                 Append(@, Len(ns))],
                Len(ns))

\* the loop of expand_chance_node over the outcomes from the k-th on
RECURSIVE ExpandOutcomes(_, _, _, _)
RECURSIVE ContinueOutcomes(_, _, _, _)
ExpandOutcomes(ns, chance_node_index, outs, k) ==
    IF k > Len(outs) THEN TreeOk(ns, None)
    ELSE ContinueOutcomes(
             PushChanceChild(ns, chance_node_index,
                             OutcomeChild(chance_node_index, outs[k],
                                          discover_actions(outs[k].resulting_state))),
             chance_node_index, outs, k)

ContinueOutcomes(pushed, chance_node_index, outs, k) ==
    IF ~pushed.ok THEN pushed
    ELSE ExpandOutcomes(pushed.nodes, chance_node_index, outs, k + 1)

\* Ok(first_child_index) of expand_chance_node
FirstChild(expanded, first_child_index) ==
    IF ~expanded.ok THEN expanded ELSE TreeOk(expanded.nodes, first_child_index)

\* expand_chance_node from the result of rollout_chance_outcomes on
ExpandRolled(ns, chance_node_index, rolled) ==
    IF ~rolled.ok THEN TreeErr(ns)
    ELSE IF rolled.outcomes = <<>> THEN TreeErr(ns)
    ELSE FirstChild(ExpandOutcomes(ns, chance_node_index, rolled.outcomes, 1), Len(ns))

\* the rollout without its outcomes after the first
FirstOutcomeOnly(rolled) ==
    IF rolled.outcomes = <<>> THEN rolled
    ELSE [rolled EXCEPT !.outcomes = <<rolled.outcomes[1]>>]

\* a variant of the expansion that creates a child for the first outcome only
expand_chance_node_first_outcome(ns, chance_node_index) ==
    ExpandRolled(ns, chance_node_index,
                 FirstOutcomeOnly(rollout_chance_outcomes(NodeAt(ns, chance_node_index).state)))

expand_chance_node(ns, chance_node_index) ==
    ExpandRolled(ns, chance_node_index,
                 rollout_chance_outcomes(NodeAt(ns, chance_node_index).state))

expand(ns, node_index) ==
    IF NodeAt(ns, node_index).node_type = "Decision"
    THEN expand_decision_node(ns, node_index)
    ELSE expand_chance_node(ns, node_index)

\* the children the UCB1 loop of select can end on: the EndTurn child that
\* was visited is skipped unless it is the only child; an unvisited child has
\* the value INFINITY and no later child is greater, so a child with visits
\* is reached only when no child is unvisited. Which child it is depends on
\* the order of the HashMap and on the floating-point UCB1 values, and is
\* left open.
BestUCB1Children(ns, node_index) ==
    LET node == NodeAt(ns, node_index)
        should_skip(e) ==
            /\ e.action.action_type = "EndTurn"
            /\ NodeAt(ns, e.child).visits >= 1
            /\ Cardinality(node.decision_children) > 1
        kept == {e.child : e \in {d \in node.decision_children : ~should_skip(d)}}
        unvisited == {c \in kept : NodeAt(ns, c).visits = 0}
    IN IF unvisited # {} THEN unvisited ELSE kept

\* fastrand::f64(), in sixths
RandomValues == 0..(ONE - 1)

RECURSIVE CumulativeProbability(_, _, _)
CumulativeProbability(ns, children, k) ==
    IF k = 0 THEN 0
    ELSE NodeAt(ns, children[k]).chance_probability + CumulativeProbability(ns, children, k - 1)

\* the child of a chance node select descends into for a random value: the
\* first whose cumulative probability reaches it, the last child otherwise
SampledChild(ns, children, random_value) ==
    LET reached == {k \in 1..Len(children) :
                       random_value <= CumulativeProbability(ns, children, k)}
    IN IF reached = {} THEN children[Len(children)]
       ELSE children[CHOOSE k \in reached : \A j \in reached : k <= j]

\* the result of a select that never returns: with no child to go to,
\* best_child_index stays node_index and select calls itself on it for ever
NeverReturns == -1

\* a variant of the selection that stops on the node it is called on
select_without_descent(ns, node_index) == {node_index}

\* MCTSTree::select: the nodes it can return from node_index
RECURSIVE select(_, _)
select(ns, node_index) ==
    LET node == NodeAt(ns, node_index)
    IN IF node.is_terminal THEN {node_index}
       ELSE IF node.node_type = "Decision"
       THEN IF ~is_fully_expanded(node) THEN {node_index}
            ELSE IF BestUCB1Children(ns, node_index) = {} THEN {NeverReturns}
            ELSE UNION {select(ns, c) : c \in BestUCB1Children(ns, node_index)}
       ELSE IF node.chance_children = <<>> THEN {node_index}
            ELSE UNION {select(ns, SampledChild(ns, node.chance_children, r)) :
                           r \in RandomValues}

\* a variant of the backpropagation that stops at the node it starts on
backpropagate_node_only(ns, node_index, score) ==
    [ns EXCEPT ![node_index + 1] = add_visit(@, score)]

RECURSIVE backpropagate(_, _, _)
backpropagate(ns, node_index, score) ==
    LET visited == [ns EXCEPT ![node_index + 1] = add_visit(@, score)]
        parent == NodeAt(ns, node_index).parent
    IN IF parent # NoneOpt THEN backpropagate(visited, parent[1], score) ELSE visited

(* mcts/evaluation/heuristic.rs *)
\* the values of the evaluator, in units of 1.0: its floating-point value in
\* [-1, 1] of a state that is not a touchdown is left open
Scores == {-1, 0, 1}

ScoreOk(score) == [ok |-> TRUE, score |-> score]
ScoreErr == [ok |-> FALSE, score |-> 0]

\* HeuristicValuePolicy::evaluate: the results it can give
evaluate_state(state) ==
    IF state.procedure = "Touchdown" THEN {ScoreOk(1)}
    ELSE IF get_ball_position(state) = NoSquare THEN {ScoreErr}
    ELSE IF state.current_team_id = None THEN {ScoreErr}
    ELSE IF \A id \in Ids(state) :
                ~(/\ state.players[id].team = state.current_team_id
                  /\ state.players[id].position # NoSquare
                  /\ state.players[id].up)
         THEN {ScoreErr}
    ELSE {ScoreOk(score) : score \in Scores}

\* MCTSTree::evaluate of a node without children (the node expand returned
\* or a terminal node: the nodes MCTSSearch::search evaluates)
evaluate(ns, node_index) == evaluate_state(NodeAt(ns, node_index).state)

\* the average score of a is at least that of b (both visited)
AvgAtLeast(a, b) == a.total_score * b.visits >= b.total_score * a.visits

\* a variant of the choice that takes any child
get_best_action_any_child(ns) ==
    LET root == NodeAt(ns, root_index)
    IN IF root.decision_children = {} THEN [ok |-> FALSE, actions |-> {}]
       ELSE [ok |-> TRUE, actions |-> {e.action : e \in root.decision_children}]

\* MCTSTree::get_best_action: the actions it can return (max_by returns one
\* of the maximal entries, which one depends on the order of the HashMap)
get_best_action(ns) ==
    LET root == NodeAt(ns, root_index)
        with_visits == {e \in root.decision_children : NodeAt(ns, e.child).visits > 0}
        best == {e \in with_visits :
                    \A o \in with_visits : AvgAtLeast(NodeAt(ns, e.child), NodeAt(ns, o.child))}
    IN IF root.decision_children = {} THEN [ok |-> FALSE, actions |-> {}]
       ELSE IF with_visits # {} THEN [ok |-> TRUE, actions |-> {e.action : e \in best}]
       ELSE [ok |-> TRUE, actions |-> {e.action : e \in root.decision_children}]

(* mcts/search.rs *)
IterationOk(ns, selected) == [ok |-> TRUE, nodes |-> ns, selected |-> selected]
IterationErr(ns, selected) == [ok |-> FALSE, nodes |-> ns, selected |-> selected]

\* evaluate(node_index)? and backpropagate(node_index, score)
EvaluateAndBackpropagate(ns, selected, node_index) ==
    {IF evaluated.ok
     THEN IterationOk(backpropagate(ns, node_index, evaluated.score), selected)
     ELSE IterationErr(ns, selected) : evaluated \in evaluate(ns, node_index)}

\* the iteration from the result of expand on
AfterExpand(selected, expanded) ==
    IF ~expanded.ok THEN {IterationErr(expanded.nodes, selected)}
    ELSE EvaluateAndBackpropagate(expanded.nodes, selected, expanded.index)

\* the iteration going on with the tree as it was after a failed expansion
SkipFailed(ns, selected, expanded) ==
    IF ~expanded.ok THEN {IterationOk(ns, selected)}
    ELSE EvaluateAndBackpropagate(expanded.nodes, selected, expanded.index)

\* a variant of the iteration that goes on after a failed expansion
search_iteration_skipping_errors(ns) ==
    UNION {IF NodeAt(ns, selected).is_terminal
           THEN EvaluateAndBackpropagate(ns, selected, selected)
           ELSE SkipFailed(ns, selected, expand(ns, selected)) :
              selected \in select(ns, root_index)}

\* the body of the loop of MCTSSearch::search: the results it can have
search_iteration(ns) ==
    UNION {IF NodeAt(ns, selected).is_terminal
           THEN EvaluateAndBackpropagate(ns, selected, selected)
           ELSE AfterExpand(selected, expand(ns, selected)) :
              selected \in select(ns, root_index)}

----------------------------------------------------------------------------
(* A search: the tree of MCTSTree::new on a state in which the actor of    *)
(* the team carries the ball next to its scoring column, with one opponent *)
(* next to the actor or away from it. The tree grows by the iterations of  *)
(* MCTSSearch::search and by expand and backpropagate called on it as      *)
(* tests/mcts_tests.rs does: expand on a node select stops on.             *)

MaxNodes == 5    \* nodes of the arena: 1..MaxNodes
MaxVisits == 3   \* visits of the root: 0..MaxVisits

SearchProcedures == {"Turn", "MoveAction", "BlockAction", "EndTurn", "GFI"}

SearchErr == <<[ok |-> FALSE, action |-> None]>>
SearchOk(action) == <<[ok |-> TRUE, action |-> action]>>

InitSearch ==
    \E cur \in {"home", "away"}, procedure \in SearchProcedures, moves \in 0..1 :
    \E game_over \in BOOLEAN, b \in {StartSquare(cur), NoSquare} :
    \E q \in {Mirror(cur, Sq(3, 2)), Mirror(cur, Sq(3, 3))} :
        /\ gs = [GameState(
                      (ActorOf(cur) :> [Player(cur, StartSquare(cur), 1, 3)
                                           EXCEPT !.moves = moves])
                          @@ (ActorOf(OppTeam(<<>>, cur)) :>
                                  Player(OppTeam(<<>>, cur), q, 3, 3)),
                      Ball(b, b # NoSquare), cur, "NICE")
                    EXCEPT !.procedure = procedure,
                           !.active_player_id =
                               IF procedure = "Turn" THEN None ELSE ActorOf(cur),
                           !.game_over = game_over]
        /\ outcomes = <<>>
        /\ last = NoCall
        /\ nodes = <<>>
        /\ result = NoneOpt
        /\ found = <<>>

\* MCTSTree::new, the first statement of MCTSSearch::search
New ==
    /\ last = NoCall
    /\ nodes = <<>>
    /\ \E tree \in {MCTSTree_new(gs)} :
          /\ nodes' = tree.nodes
          /\ last' = [op |-> "new", ok |-> tree.ok]
          /\ result' = IF tree.ok THEN NoneOpt ELSE SearchErr
    /\ UNCHANGED <<gs, outcomes, found>>

TreeBuilt == nodes # <<>> /\ last.ok /\ result = NoneOpt

NodeIndices(ns) == 0..(Len(ns) - 1)

\* MCTSTree::expand on a node select stops on
Expand ==
    /\ TreeBuilt
    /\ Len(nodes) + 2 <= MaxNodes
    /\ \E node_index \in NodeIndices(nodes) :
          /\ node_index \in select(nodes, node_index)
          /\ \E expanded \in {expand(nodes, node_index)} :
                /\ nodes' = expanded.nodes
                /\ last' = [op |-> "expand", ok |-> expanded.ok,
                            node |-> node_index, index |-> expanded.index]
    /\ UNCHANGED <<gs, outcomes, result, found>>

\* MCTSTree::backpropagate
Backpropagate ==
    /\ TreeBuilt
    /\ NodeAt(nodes, root_index).visits < MaxVisits
    /\ \E node_index \in NodeIndices(nodes), score \in Scores :
          /\ nodes' = backpropagate(nodes, node_index, score)
          /\ last' = [op |-> "backpropagate", ok |-> TRUE,
                      node |-> node_index, score |-> score]
    /\ UNCHANGED <<gs, outcomes, result, found>>

\* one iteration of the loop of MCTSSearch::search
Iterate ==
    /\ TreeBuilt
    /\ Len(nodes) + 2 <= MaxNodes
    /\ NodeAt(nodes, root_index).visits < MaxVisits
    /\ \E iteration \in search_iteration(nodes) :
          /\ nodes' = iteration.nodes
          /\ last' = [op |-> "search", ok |-> iteration.ok, selected |-> iteration.selected]
          /\ result' = IF iteration.ok THEN NoneOpt ELSE SearchErr
    /\ UNCHANGED <<gs, outcomes, found>>

\* MCTSTree::get_best_action, the last statement of MCTSSearch::search
GetBestAction ==
    /\ TreeBuilt
    /\ \E best \in {get_best_action(nodes)} :
          /\ last' = [op |-> "get_best_action", ok |-> best.ok]
          /\ IF best.ok
             THEN \E action \in best.actions : result' = SearchOk(action)
             ELSE result' = SearchErr
    /\ UNCHANGED <<gs, outcomes, nodes, found>>

NextSearch == New \/ Expand \/ Backpropagate \/ Iterate \/ GetBestAction

SpecSearch == InitSearch /\ [][NextSearch]_vars

----------------------------------------------------------------------------
(* pathfinding/astar.rs, pathfinding/node.rs, pathfinding/path.rs          *)
(* A probability (f64 in 0.0..1.0) is a whole number of parts of PROB_ONE, *)
(* which every product of the factors of a path divides; g_score and       *)
(* f_score are in the same parts.                                          *)

MAX_GFI == 2
GFI_TARGET_NORMAL == 2
GFI_TARGET_BLIZZARD == 3
\* indexed by the agility, from 0
AGILITY_TABLE == <<6, 6, 5, 4, 3, 2, 1>>
RISK_WEIGHT == 10

RECURSIVE PowerOfSix(_)
PowerOfSix(n) == IF n = 0 THEN 1 ELSE 6 * PowerOfSix(n - 1)

\* 1.0: a step has at most two factors, each a number of sixths
PROB_ONE == PowerOfSix(2 * (MaxMa + MAX_GFI))

\* prob * (sixths / 6.0)
TimesSixths(prob, sixths) == (prob * sixths) \div 6

\* prob >= MIN_PROB_THRESHOLD (0.01): no number of parts is exactly a hundredth
AtLeastThreshold(prob) == prob > PROB_ONE \div 100

\* PathNode::new
PathNode_new(position, moves_left, gfis_left) ==
    [position |-> position, parent |-> NoneOpt, g_score |-> 0, h_score |-> 0,
     f_score |-> 0, moves_left |-> moves_left, gfis_left |-> gfis_left,
     prob |-> PROB_ONE, picked_up_ball |-> FALSE]

\* a.saturating_sub(b)
saturating_sub(a, b) == IF a > b THEN a - b ELSE 0

\* PathNode::from_parent; move_prob is [gfi, dodge], each in sixths
from_parent(parent_index, parent, position, move_prob, uses_gfi) ==
    [position |-> position, parent |-> <<parent_index>>, g_score |-> 0, h_score |-> 0,
     f_score |-> 0,
     moves_left |-> IF uses_gfi THEN parent.moves_left
                    ELSE saturating_sub(parent.moves_left, 1),
     gfis_left |-> IF uses_gfi THEN saturating_sub(parent.gfis_left, 1)
                   ELSE parent.gfis_left,
     prob |-> TimesSixths(TimesSixths(parent.prob, move_prob.gfi), move_prob.dodge),
     picked_up_ball |-> parent.picked_up_ball]

total_moves_left(node) == node.moves_left + node.gfis_left

\* PathNode::update_g_score, with h_score 0.0
update_g_score(node, steps, risk_weight) ==
    [node EXCEPT !.g_score = steps * PROB_ONE + (PROB_ONE - node.prob) * risk_weight,
                 !.f_score = steps * PROB_ONE + (PROB_ONE - node.prob) * risk_weight]

\* impl Ord for PathNode: the lower f_score is the greater node, then the
\* higher prob
cmp(self, other) ==
    IF other.f_score > self.f_score THEN "Greater"
    ELSE IF other.f_score < self.f_score THEN "Less"
    ELSE IF self.prob > other.prob THEN "Greater"
    ELSE IF self.prob < other.prob THEN "Less"
    ELSE "Equal"

\* Pathfinder::new: [ok, ...] with the fields of the Pathfinder
Pathfinder_new(s, player) ==
    IF player.position = NoSquare THEN [ok |-> FALSE]
    ELSE IF s.current_team_id = None THEN [ok |-> FALSE]
    ELSE [ok |-> TRUE,
          game_state |-> s,
          player |-> player,
          current_position |-> player.position,
          ball_position |-> IF Len(s.balls) > 0 /\ ~s.balls[1].is_carried
                            THEN s.balls[1].position ELSE NoSquare,
          opponent_team_id |-> OppTeam(s, s.current_team_id),
          is_blizzard |-> s.weather = "BLIZZARD",
          is_quick_snap |-> s.turn_state # NoneOpt /\ s.turn_state[1].quick_snap]

\* precompute_tackle_zones and get_tackle_zones_at
get_tackle_zones_at(self, pos) ==
    IF pos[1] >= 0 /\ pos[1] < ARENA_WIDTH /\ pos[2] >= 0 /\ pos[2] < ARENA_HEIGHT
    THEN Cardinality({id \in Ids(self.game_state) :
             LET opponent == self.game_state.players[id]
             IN /\ opponent.team = self.opponent_team_id
                /\ opponent.position # NoSquare
                /\ opponent.up
                /\ ~opponent.stunned
                /\ pos \in Neighbours(opponent.position)})
    ELSE 0

get_valid_neighbors(self, pos) ==
    {sq \in Neighbours(pos) :
        /\ sq[1] \in 1..(ARENA_WIDTH - 2)
        /\ sq[2] \in 1..(ARENA_HEIGHT - 2)
        /\ PlayersAt(self.game_state, sq) = {}}

\* the factor of the dodge into `to`, in sixths
calculate_dodge_probability(self, to) ==
    7 - Clamp(AGILITY_TABLE[Min2(get_ag(self.player), 6) + 1] + 1
                  + get_tackle_zones_at(self, to), 2, 6)

\* a variant of the step probability that never takes a dodge into account
calculate_move_probability_without_dodge(self, from_node, to) ==
    [gfi |-> IF from_node.moves_left = 0
             THEN 7 - (IF self.is_blizzard THEN GFI_TARGET_BLIZZARD ELSE GFI_TARGET_NORMAL)
             ELSE 6,
     dodge |-> 6,
     uses_gfi |-> from_node.moves_left = 0]

\* (prob, uses_gfi), prob as its factors [gfi, dodge] in sixths
calculate_move_probability(self, from_node, to) ==
    [gfi |-> IF from_node.moves_left = 0
             THEN 7 - (IF self.is_blizzard THEN GFI_TARGET_BLIZZARD ELSE GFI_TARGET_NORMAL)
             ELSE 6,
     dodge |-> IF ~self.is_quick_snap /\ get_tackle_zones_at(self, from_node.position) > 0
               THEN calculate_dodge_probability(self, to)
               ELSE 6,
     uses_gfi |-> from_node.moves_left = 0]

\* existing.prob >= node.prob && existing.total_moves_left() >= node.total_moves_left()
Dominated(best_nodes, node) ==
    /\ node.position \in DOMAIN best_nodes
    /\ best_nodes[node.position].prob >= node.prob
    /\ total_moves_left(best_nodes[node.position]) >= total_moves_left(node)

\* the neighbor node of the loop over get_valid_neighbors, with its scores
NeighborNode(self, current_index, current, neighbor_pos, move_prob) ==
    LET neighbor == from_parent(current_index, current, neighbor_pos, move_prob,
                                move_prob.uses_gfi)
    IN update_g_score(
           [neighbor EXCEPT !.picked_up_ball = @ \/ neighbor_pos = self.ball_position],
           (get_ma(self.player) - neighbor.moves_left) + (MAX_GFI - neighbor.gfis_left),
           RISK_WEIGHT)

\* the nodes the expansion of `current` pushes onto the open set
Pushed(self, best_nodes, current_index, current) ==
    IF total_moves_left(current) = 0 THEN {}
    ELSE {node \in
             {NeighborNode(self, current_index, current, neighbor_pos,
                           calculate_move_probability(self, current, neighbor_pos)) :
                 neighbor_pos \in
                     {sq \in get_valid_neighbors(self, current.position) :
                         LET move_prob == calculate_move_probability(self, current, sq)
                         IN /\ move_prob.gfi * move_prob.dodge * 100 >= 36
                            /\ ~(move_prob.uses_gfi /\ current.gfis_left = 0)}} :
             ~Dominated(best_nodes, node) /\ AtLeastThreshold(node.prob)}

\* the index of the parent in the closed set, -1 for the start node
ParentIndex(node) == IF node.parent = NoneOpt THEN -1 ELSE node.parent[1]

\* the order of two nodes of the heap that compare Equal: by square, then by
\* parent
KeyBefore(a, b) ==
    \/ a.position[1] < b.position[1]
    \/ a.position[1] = b.position[1] /\ a.position[2] < b.position[2]
    \/ a.position = b.position /\ ParentIndex(a) <= ParentIndex(b)

\* BinaryHeap::pop: a greatest node of the heap. Which of several greatest
\* nodes it returns is not part of the contract of the heap: a run takes the
\* first of them in the order of their keys, or the last.
TieOrders == {"first", "last"}

Pop(open_set, tie) ==
    LET greatest == {n \in open_set : \A o \in open_set : cmp(o, n) # "Greater"}
    IN CHOOSE n \in greatest :
           \A o \in greatest : IF tie = "first" THEN KeyBefore(n, o) ELSE KeyBefore(o, n)

\* the loop of find_all_paths: the closed set it ends with
RECURSIVE SearchLoop(_, _, _, _, _)
RECURSIVE Visit(_, _, _, _, _, _)
SearchLoop(self, tie, open_set, closed_set, best_nodes) ==
    IF open_set = {} THEN closed_set
    ELSE Visit(self, tie, open_set, closed_set, best_nodes, Pop(open_set, tie))

Visit(self, tie, open_set, closed_set, best_nodes, current) ==
    IF Dominated(best_nodes, current)
    THEN SearchLoop(self, tie, open_set \ {current}, closed_set, best_nodes)
    ELSE SearchLoop(self, tie,
                    (open_set \ {current})
                        \cup Pushed(self, (current.position :> current) @@ best_nodes,
                                    Len(closed_set), current),
                    Append(closed_set, current),
                    (current.position :> current) @@ best_nodes)

\* the squares from the start to the node, the start left out
RECURSIVE SquaresTo(_, _, _)
SquaresTo(self, closed_set, idx) ==
    LET here == IF closed_set[idx + 1].position # self.current_position
                THEN <<closed_set[idx + 1].position>> ELSE <<>>
    IN IF closed_set[idx + 1].parent = NoneOpt THEN here
       ELSE SquaresTo(self, closed_set, closed_set[idx + 1].parent[1]) \o here

RECURSIVE PicksUpBall(_, _)
PicksUpBall(closed_set, idx) ==
    \/ closed_set[idx + 1].picked_up_ball
    \/ /\ closed_set[idx + 1].parent # NoneOpt
       /\ PicksUpBall(closed_set, closed_set[idx + 1].parent[1])

\* the Path of the node of the closed set
PathOf(self, closed_set, idx) ==
    [squares |-> SquaresTo(self, closed_set, idx),
     target |-> closed_set[idx + 1].position,
     prob |-> closed_set[idx + 1].prob,
     moves_used |-> get_ma(self.player) - closed_set[idx + 1].moves_left,
     gfis_used |-> MAX_GFI - closed_set[idx + 1].gfis_left,
     picks_up_ball |-> PicksUpBall(closed_set, idx)]

\* the order of the stable sort of extract_paths on the nodes i and j of the
\* closed set: by prob, descending, then by the moves remaining, descending
SortsBefore(closed_set, i, j) ==
    \/ closed_set[i + 1].prob > closed_set[j + 1].prob
    \/ /\ closed_set[i + 1].prob = closed_set[j + 1].prob
       /\ \/ total_moves_left(closed_set[i + 1]) > total_moves_left(closed_set[j + 1])
          \/ /\ total_moves_left(closed_set[i + 1]) = total_moves_left(closed_set[j + 1])
             /\ i < j

\* the paths of the nodes `kept` of the closed set, in the order of the sort
SortedPaths(self, closed_set, kept) ==
    [r \in 1..Cardinality(kept) |->
        PathOf(self, closed_set,
               CHOOSE i \in kept :
                   Cardinality({j \in kept : SortsBefore(closed_set, j, i)}) + 1 = r)]

\* the nodes of the closed set off the start
OffStart(self, closed_set) ==
    {i \in 0..(Len(closed_set) - 1) : closed_set[i + 1].position # self.current_position}

\* a variant of the extraction that retains the paths of all nodes
extract_all_paths(self, closed_set) ==
    SortedPaths(self, closed_set, OffStart(self, closed_set))

\* extract_paths: the paths of the nodes off the start, sorted, the first
\* path of every target retained
extract_paths(self, closed_set) ==
    SortedPaths(self, closed_set,
                {i \in OffStart(self, closed_set) :
                    \A j \in OffStart(self, closed_set) :
                        closed_set[j + 1].position = closed_set[i + 1].position =>
                            (j = i \/ SortsBefore(closed_set, i, j))})

\* moves_left and gfis_left of the start node
StartMoves(self) ==
    IF self.is_quick_snap THEN 1
    ELSE saturating_sub(get_ma(self.player), self.player.moves)

\* a variant of the GFIs of the start node that forgets the GFIs already made
StartGfis_ignoring_moves_used(self) ==
    IF self.is_quick_snap THEN 0 ELSE MAX_GFI

StartGfis(self) ==
    IF self.is_quick_snap THEN 0
    ELSE Min2(saturating_sub(get_ma(self.player) + MAX_GFI, self.player.moves), MAX_GFI)

\* Pathfinder::find_all_paths
Pathfinder_find_all_paths(self, tie) ==
    extract_paths(self,
                  SearchLoop(self, tie,
                             {PathNode_new(self.current_position, StartMoves(self),
                                           StartGfis(self))},
                             <<>>, <<>>))

----------------------------------------------------------------------------
(* A call of the pathfinder: the actor of the team in the corner of the    *)
(* pitch or one square off it, with moves already made, up to three        *)
(* opponents around it, standing or prone, a teammate that may stand next  *)
(* to it and the ball on the ground or in the hands of the actor.          *)

PathfinderStarts == {Sq(1, 1), Sq(2, 2)}

PathfinderOpponentSquares == {Sq(1, 2), Sq(2, 3), Sq(3, 2)}

PathfinderOpponentIds == (Sq(1, 2) :> "o1") @@ (Sq(2, 3) :> "o2") @@ (Sq(3, 2) :> "o3")

InitPathfinder ==
    \E cur \in {"home", "away"}, ma \in 1..MaxMa :
    \E m \in 0..(ma + MAX_GFI + 1) :
    \E ag \in {1, 3}, weather \in Weathers, quick_snap \in BOOLEAN :
    \E start \in PathfinderStarts, opponents \in SUBSET PathfinderOpponentSquares :
    \E opponent_up \in BOOLEAN, mate \in {Sq(2, 1), NoSquare}, b \in {Sq(3, 3), NoSquare} :
        /\ gs = [GameState(
                      [id \in {ActorOf(cur), MateOf(cur)}
                              \cup {PathfinderOpponentIds[sq] : sq \in opponents} |->
                          IF id = ActorOf(cur)
                          THEN [Player(cur, Mirror(cur, start), ma, ag) EXCEPT !.moves = m]
                          ELSE IF id = MateOf(cur)
                          THEN Player(cur, IF mate = NoSquare THEN NoSquare
                                           ELSE Mirror(cur, mate), 3, 3)
                          ELSE [Player(OppTeam(<<>>, cur),
                                       Mirror(cur, CHOOSE sq \in opponents :
                                                       PathfinderOpponentIds[sq] = id),
                                       3, 3)
                                   EXCEPT !.up = opponent_up]],
                      IF b = NoSquare THEN Ball(Mirror(cur, start), TRUE)
                      ELSE Ball(Mirror(cur, b), FALSE),
                      cur, weather)
                    EXCEPT !.procedure = "MoveAction",
                           !.parent_procedure = "MoveAction",
                           !.active_player_id = ActorOf(cur),
                           !.turn_state[1].quick_snap = quick_snap]
        /\ outcomes = <<>>
        /\ last = NoCall
        /\ nodes = <<>>
        /\ result = NoneOpt
        /\ found = <<>>

\* Pathfinder::new(game_state, player) and find_all_paths
FindAllPaths ==
    /\ last = NoCall
    /\ \E self \in {Pathfinder_new(gs, gs.players[gs.active_player_id])} :
          IF self.ok
          THEN \E tie \in TieOrders :
                   /\ found' = Pathfinder_find_all_paths(self, tie)
                   /\ last' = [op |-> "find_all_paths", ok |-> TRUE]
          ELSE /\ found' = <<>>
               /\ last' = [op |-> "find_all_paths", ok |-> FALSE]
    /\ UNCHANGED <<gs, outcomes, nodes, result>>

NextPathfinder == FindAllPaths

SpecPathfinder == InitPathfinder /\ [][NextPathfinder]_vars

----------------------------------------------------------------------------
(* A high kick: the ball in the air over a square next to the middle of    *)
(* the pitch or off the pitch, two players of each team, one of them       *)
(* under the ball or away from it, standing, prone or stunned, on the      *)
(* pitch or in the reserves.                                               *)

HighKickBallSquares == {Sq(ARENA_WIDTH \div 2 - 1, 2), Sq(ARENA_WIDTH \div 2, 2), NoSquare}

HighKickPlayer(team, sq, up, stunned) ==
    [Player(team, sq, 3, 3) EXCEPT !.up = up, !.stunned = stunned]

InitHighKick ==
    \E receiving \in {"home", "away", None}, b \in HighKickBallSquares :
    \E h1 \in {Sq(ARENA_WIDTH \div 2 + 1, 3), NoSquare},
       h2 \in {Sq(ARENA_WIDTH \div 2, 2), Sq(ARENA_WIDTH \div 2 + 1, 4)} :
    \E a1 \in {Sq(ARENA_WIDTH \div 2 - 2, 3), NoSquare},
       a2 \in {Sq(ARENA_WIDTH \div 2 - 1, 2), Sq(ARENA_WIDTH \div 2 - 2, 4)} :
    \E up \in [1..4 -> BOOLEAN], stunned \in BOOLEAN :
        /\ gs = [GameState(
                    ("h1" :> HighKickPlayer("home", h1, up[1], FALSE))
                        @@ ("h2" :> HighKickPlayer("home", h2, up[2], ~up[2] /\ stunned))
                        @@ ("a1" :> HighKickPlayer("away", a1, up[3], FALSE))
                        @@ ("a2" :> HighKickPlayer("away", a2, up[4], ~up[4] /\ stunned)),
                    Ball(b, FALSE), None, "NICE")
                 EXCEPT !.procedure = "HighKick",
                        !.receiving_this_drive = receiving]
        /\ outcomes = <<>>
        /\ last = NoCall
        /\ nodes = <<>>
        /\ result = NoneOpt
        /\ found = <<>>

\* ActionRegistry::discover_actions on the HighKick procedure
HighKickDiscovery ==
    /\ last = NoCall
    /\ gs.procedure = "HighKick"
    /\ \E discovered \in {discover_actions(gs)} :
          /\ gs' = discovered.gs
          /\ last' = [op |-> "high_kick_discovery", ok |-> discovered.ok]
    /\ UNCHANGED <<outcomes, nodes, result, found>>

NextHighKick == HighKickDiscovery

SpecHighKick == InitHighKick /\ [][NextHighKick]_vars

----------------------------------------------------------------------------
(* Properties of the movement procedures, checked under SpecMove.          *)

RECURSIVE SumProbabilities(_)
SumProbabilities(outs) ==
    IF outs = <<>> THEN 0 ELSE Head(outs).probability + SumProbabilities(Tail(outs))

ActivePlayer(s) == s.players[s.active_player_id]

\* active player, current team, target position and parent procedure are present
RequiredContextPresent(s) ==
    /\ HasPlayer(s, s.active_player_id)
    /\ s.current_team_id # None
    /\ s.position # NoSquare
    /\ s.parent_procedure # None

RolledGfi == last.op = "rollout_chance_outcomes" /\ gs.procedure = "GFI"

RolledDodge == last.op = "dodge_rollout" /\ gs.procedure = "Dodge"

\* the Move actions offered in a state that waits for the next action
OfferedMoves ==
    IF Idle /\ gs.procedure = "MoveAction"
    THEN {action \in RegistryInputs(gs) : action.action_type = "Move"}
    ELSE {}

\* the square a Move action steps to in state s
NextSquareOf(s, action) ==
    IF s.active_path # NoneOpt THEN s.active_path[1].squares[s.active_path[1].current_step + 1]
    ELSE IF action.path # NoneOpt THEN action.path[1][1]
    ELSE action.position

InOpposingTackleZone(s, sq) ==
    \E o \in Ids(s) :
        /\ s.players[o].team # s.current_team_id
        /\ s.players[o].position # NoSquare
        /\ distance(s.players[o].position, sq) = 1
        /\ s.players[o].up
        /\ ~s.players[o].stunned

ScoreOf(s, team) == IF team = "home" THEN s.score.home ELSE s.score.away

InScoringColumn(team, sq) ==
    IF team = "home" THEN sq[1] = 1 ELSE sq[1] = ARENA_WIDTH - 1

(* C1: for every state in a chance procedure (BlockRoll, GFI, Dodge) with  *)
(* active player, current team, target position and parent procedure       *)
(* present, rollout_chance_outcomes returns Ok with a non-empty list of    *)
(* outcomes whose probabilities sum to 1 (six sixths).                     *)
C1_RolloutChanceOutcomesOk ==
    (/\ last.op = "rollout_chance_outcomes"
     /\ is_random_procedure(gs.procedure)
     /\ RequiredContextPresent(gs))
    => (/\ last.ok
        /\ Len(outcomes) > 0
        /\ SumProbabilities(outcomes) = 6)

(* C2: move_execution classifies the step: moves + 1 > ma gives GFI with   *)
(* state.position the next square, parent_procedure the procedure before   *)
(* the call and the player not moved; otherwise a current square in an     *)
(* opposing tackle zone gives Dodge with state.position the next square,   *)
(* parent_procedure as it was and the player not moved; otherwise the      *)
(* deterministic move is performed.                                        *)
C2_MoveClassification ==
    \A action \in OfferedMoves :
        LET r == execute_action(gs, action)
            id == gs.active_player_id
            player == ActivePlayer(gs)
            next == NextSquareOf(gs, action)
        IN IF player.moves + 1 > get_ma(player)
           THEN /\ r.ok
                /\ r.gs.procedure = "GFI"
                /\ r.gs.position = next
                /\ r.gs.parent_procedure = gs.procedure
                /\ r.gs.players = gs.players
           ELSE IF InOpposingTackleZone(gs, player.position)
           THEN /\ r.ok
                /\ r.gs.procedure = "Dodge"
                /\ r.gs.position = next
                /\ r.gs.parent_procedure = gs.parent_procedure
                /\ r.gs.players = gs.players
           ELSE /\ r.ok
                /\ r.gs.procedure \notin {"GFI", "Dodge"}
                /\ r.gs.players[id].position = next
                /\ r.gs.players[id].moves = player.moves + 1

C2_Witness ==
    /\ last = [op |-> "Move", ok |-> TRUE]
    /\ gs.procedure = "Dodge"
    /\ gs.position # NoSquare
    /\ ActivePlayer(gs).moves = 0

(* C3: in the success outcome of the GFI rollout, for every target square  *)
(* and every arrangement of opponents, the active player stands on pos     *)
(* with moves incremented by 1 and still up, pickup/carry/touchdown have   *)
(* been applied, and procedure is the saved parent_procedure (or Touchdown *)
(* if the step scored).                                                    *)
C3_GfiSuccessOutcome ==
    (RolledGfi /\ last.ok) =>
        LET s == outcomes[1].resulting_state
            id == gs.active_player_id
            pos == gs.position
            carries == s.balls[1].is_carried /\ s.balls[1].position = pos
            scored == carries /\ InScoringColumn(gs.current_team_id, pos)
        IN /\ s.players[id].position = pos
           /\ s.players[id].moves = gs.players[id].moves + 1
           /\ s.players[id].up
           /\ (gs.balls[1].position = pos => s.balls[1].is_carried)
           /\ (is_active_player_carrying_ball(gs) => carries)
           /\ s.procedure = (IF scored THEN "Touchdown" ELSE gs.parent_procedure)

(* C4: dodge_rollout returns exactly two outcomes; with n the agility      *)
(* target (AG 1 -> 6, 2 -> 5, 3 -> 4, 4 -> 3, 5 -> 2, 6 or more -> 1) and  *)
(* t the opposing tackle zones on the destination, success has probability *)
(* (7 - clamp(n + t, 2, 6))/6 and failure the complement: an AG 3 player   *)
(* dodging to a square in no tackle zone gets 3/6 and 3/6.                 *)
C4_DodgeProbabilities ==
    (RolledDodge /\ last.ok) =>
        LET ag == get_ag(ActivePlayer(gs))
            n == IF ag >= 6 THEN 1 ELSE 7 - ag
            t == Cardinality({o \in Ids(gs) : /\ gs.players[o].team # gs.current_team_id
                                              /\ gs.players[o].position # NoSquare
                                              /\ distance(gs.players[o].position, gs.position) = 1
                                              /\ gs.players[o].up
                                              /\ ~gs.players[o].stunned})
        IN /\ Len(outcomes) = 2
           /\ outcomes[1].probability = 7 - Clamp(n + t, 2, 6)
           /\ outcomes[2].probability = 6 - outcomes[1].probability

(* C5: gfi_rollout returns exactly two outcomes, 5/6 success and 1/6       *)
(* failure in every weather except BLIZZARD, where they are 4/6 and 2/6.   *)
C5_GfiProbabilities ==
    (RolledGfi /\ last.ok) =>
        /\ Len(outcomes) = 2
        /\ outcomes[1].probability = (IF gs.weather = "BLIZZARD" THEN 4 ELSE 5)
        /\ outcomes[2].probability = (IF gs.weather = "BLIZZARD" THEN 2 ELSE 1)

(* C6: the failure outcome of the GFI and of the Dodge rollout differs     *)
(* from the pre-roll state in exactly: the active player's position is the *)
(* target square, its up flag is false, procedure is Turnover and          *)
(* parent_procedure is None; moves, scores, ball and other players are     *)
(* unchanged.                                                              *)
C6_FailureOutcome ==
    ((RolledGfi \/ RolledDodge) /\ last.ok) =>
        LET f == outcomes[2].resulting_state
            id == gs.active_player_id
        IN /\ f.players[id].position = gs.position
           /\ f.players[id].up = FALSE
           /\ f.procedure = "Turnover"
           /\ f.parent_procedure = None
           /\ [f EXCEPT !.players[id].position = gs.players[id].position,
                        !.players[id].up = gs.players[id].up,
                        !.procedure = gs.procedure,
                        !.parent_procedure = gs.parent_procedure] = gs

C6_Witness ==
    /\ RolledDodge
    /\ last.ok
    /\ Len(outcomes) = 2
    /\ is_active_player_carrying_ball(gs)
    /\ outcomes[2].resulting_state.procedure = "Turnover"

(* C7: a deterministic Move step (no GFI, no Dodge) onto the ball's square *)
(* sets is_carried; whenever the active player carries the ball after the  *)
(* step the ball is on the player's new square, and in the acting team's   *)
(* scoring column (x = 1 home, x = ARENA_WIDTH - 1 away) procedure is      *)
(* Touchdown and that team's score is one higher; in every other case      *)
(* procedure is restored to parent_procedure.                              *)
C7_DeterministicMove ==
    \A action \in OfferedMoves :
        LET r == execute_action(gs, action)
            s == r.gs
            id == gs.active_player_id
            team == gs.current_team_id
            player == ActivePlayer(gs)
            next == NextSquareOf(gs, action)
            carries == s.balls[1].is_carried /\ s.balls[1].position = s.players[id].position
        IN (player.moves + 1 <= get_ma(player) /\ ~InOpposingTackleZone(gs, player.position))
           => /\ r.ok
              /\ (gs.balls[1].position = next => s.balls[1].is_carried)
              /\ (carries => s.players[id].position = next)
              /\ IF carries /\ InScoringColumn(team, next)
                 THEN /\ s.procedure = "Touchdown"
                      /\ ScoreOf(s, team) = ScoreOf(gs, team) + 1
                 ELSE /\ s.procedure = gs.parent_procedure
                      /\ s.score = gs.score

C7_Witness ==
    /\ last = [op |-> "Move", ok |-> TRUE]
    /\ gs.procedure = "Touchdown"
    /\ gs.score.away = 1
    /\ gs.balls[1].is_carried
    /\ gs.balls[1].position[1] = ARENA_WIDTH - 1

(* C8: the ball invariant holds in every state reached by execute_action   *)
(* and rollout outcomes: a carried ball has a player of either team on its *)
(* square.                                                                 *)
BallInvariant(s) ==
    s.balls[1].is_carried => \E p \in Ids(s) : s.players[p].position = s.balls[1].position

C8_BallInvariant ==
    /\ BallInvariant(gs)
    /\ \A i \in 1..Len(outcomes) : BallInvariant(outcomes[i].resulting_state)

----------------------------------------------------------------------------
(* Properties of the push procedure, checked under SpecBlock.              *)

PushChain(s) == s.block_context[1].push_chain

TailOf(s) == PushChain(s)[Len(PushChain(s))]

OccupantsOf(s, sq) == {p \in Ids(s) : s.players[p].position = sq}

\* the squares next to the tail defender that lie away from its pusher
PushCandidates(s) ==
    LET pusher == s.players[TailOf(s).attacker].position
        defender == s.players[TailOf(s).defender].position
        straight == pusher[1] = defender[1] \/ pusher[2] = defender[2]
    IN {sq \in Neighbours(defender) :
            IF straight
            THEN Max2(Abs(sq[1] - pusher[1]), Abs(sq[2] - pusher[2])) >= 2
            ELSE Abs(sq[1] - pusher[1]) + Abs(sq[2] - pusher[2]) >= 3}

OfferedSquares(s) == {action.position : action \in DiscoveredActions(s)}

(* C9: push_discovery offers Push targets only among the squares adjacent  *)
(* to the tail defender that lie away from the pusher (Chebyshev distance  *)
(* >= 2 for a push along a row or column, Manhattan distance >= 3 for a    *)
(* diagonal push), and exactly one class of them: all empty candidates if  *)
(* there is one, otherwise all candidates out of bounds if there is one,   *)
(* otherwise all occupied candidates.                                      *)
C9_PushDiscovery ==
    (Discovered /\ gs.procedure = "Push") =>
        LET candidates == PushCandidates(gs)
            out == {sq \in candidates : is_out_of_bounds(sq)}
            empty == {sq \in candidates \ out : OccupantsOf(gs, sq) = {}}
            occupied == {sq \in candidates \ out : OccupantsOf(gs, sq) # {}}
        IN /\ \A action \in DiscoveredActions(gs) : action.action_type = "Push"
           /\ OfferedSquares(gs) \subseteq candidates
           /\ OfferedSquares(gs) = (IF empty # {} THEN empty
                                    ELSE IF out # {} THEN out
                                    ELSE occupied)

C9_Witness ==
    /\ Discovered
    /\ gs.procedure = "Push"
    /\ Len(gs.available_actions) = 3
    /\ \A sq \in OfferedSquares(gs) : OccupantsOf(gs, sq) # {}

(* C10: push_execution on target t: out of bounds, it returns an error;    *)
(* occupied, it appends exactly one chain record (attacker the previous    *)
(* tail's defender, defender the occupant, no position), moves no player   *)
(* and leaves procedure Push; empty, it executes the whole chain and sets  *)
(* procedure FollowUp unless a touchdown was detected.                     *)
C10_PushExecution ==
    (Discovered /\ gs.procedure = "Push") =>
        \A action \in DiscoveredActions(gs) :
            LET r == push_execution(gs, action)
                t == action.position
                chain == PushChain(gs)
            IN IF is_out_of_bounds(t) THEN ~r.ok
               ELSE IF OccupantsOf(gs, t) # {}
               THEN /\ r.ok
                    /\ Len(PushChain(r.gs)) = Len(chain) + 1
                    /\ TailOf(r.gs).attacker = TailOf(gs).defender
                    /\ TailOf(r.gs).defender \in OccupantsOf(gs, t)
                    /\ TailOf(r.gs).position = NoSquare
                    /\ r.gs.players = gs.players
                    /\ r.gs.procedure = "Push"
               ELSE /\ r.ok
                    /\ \A i \in 1..Len(chain) :
                          r.gs.players[chain[i].defender].position =
                              (IF i = Len(chain) THEN t ELSE chain[i].position)
                    /\ \/ r.gs.procedure = "FollowUp" /\ r.gs.score = gs.score
                       \/ r.gs.procedure = "Touchdown" /\ r.gs.score # gs.score

C10_Witness ==
    /\ last = [op |-> "Push", ok |-> TRUE]
    /\ gs.procedure = "Push"
    /\ Len(PushChain(gs)) = 2
    /\ TailOf(gs).position = NoSquare

\* the records of the chain name the block's pair first, then each pushed pair
ChainLinked(s) ==
    LET ctx == s.block_context[1]
        chain == ctx.push_chain
    IN /\ Len(chain) >= 1
       /\ chain[1].attacker = ctx.attacker
       /\ chain[1].defender = ctx.defender
       /\ \A i \in 2..Len(chain) :
             /\ chain[i].attacker = chain[i - 1].defender
             /\ chain[i - 1].position # NoSquare

\* push_discovery and push_execution of s act on the pair of the last record
ActOnTail(s) ==
    LET tail == TailOf(s)
        d == push_discovery(s)
    IN /\ tail.position = NoSquare
       /\ d.ok
       /\ d.gs.available_actions # <<>>
       /\ \A action \in DiscoveredActions(d.gs) :
             LET r == push_execution(d.gs, action)
             IN /\ distance(action.position, s.players[tail.defender].position) = 1
                /\ distance(action.position, s.players[tail.attacker].position) >= 2
                /\ PushChain(r.gs)[Len(PushChain(s))].position = action.position
                /\ (r.ok /\ OccupantsOf(s, action.position) = {}) =>
                      r.gs.players[tail.defender].position = action.position

(* C30: in every state reached through Block, the BlockRoll outcome and a  *)
(* Select* choice, whenever procedure is Push or FollowUp the              *)
(* block_context is present and its push_chain is non-empty, and the last  *)
(* record names the attacker/defender pair that Push discovery and Push    *)
(* execution act on.                                                       *)
C30_PushChainTail ==
    (last.ok /\ gs.procedure \in {"Push", "FollowUp"}) =>
        /\ gs.block_context # NoneOpt
        /\ ChainLinked(gs)
        /\ gs.procedure = "Push" => ActOnTail(gs)
        /\ gs.procedure = "FollowUp" =>
              /\ TailOf(gs).position # NoSquare
              /\ gs.players[TailOf(gs).defender].position = TailOf(gs).position

C30_Witness ==
    /\ Discovered
    /\ gs.procedure = "Push"
    /\ Len(PushChain(gs)) = 2
    /\ TailOf(gs).attacker = gs.block_context[1].defender
    /\ TailOf(gs).defender # gs.block_context[1].defender
    /\ gs.available_actions # <<>>

----------------------------------------------------------------------------
(* Properties of the executed push chain, checked under SpecPushTouchdown. *)

\* the discovered Push actions whose target is in bounds and empty
PushesIntoEmpty ==
    IF Discovered /\ gs.procedure = "Push"
    THEN {action \in DiscoveredActions(gs) :
            ~is_out_of_bounds(action.position) /\ OccupantsOf(gs, action.position) = {}}
    ELSE {}

NoSharedSquare(s) ==
    \A p \in Ids(s), q \in Ids(s) :
        (p # q /\ s.players[p].position # NoSquare) => s.players[p].position # s.players[q].position

(* C11: after a Push into an empty square has executed the chain, every    *)
(* defender of push_chain stands on the position of its chain record, no   *)
(* two players stand on the same square, the attacker has not moved, and   *)
(* with knock_out set exactly the original defender (BlockContext.defender) *)
(* is newly knocked_out, without it nobody is.                             *)
C11_PushChainExecuted ==
    \A action \in PushesIntoEmpty :
        LET r == push_execution(gs, action)
            ctx == r.gs.block_context[1]
        IN /\ r.ok
           /\ \A i \in 1..Len(ctx.push_chain) :
                  r.gs.players[ctx.push_chain[i].defender].position = ctx.push_chain[i].position
           /\ NoSharedSquare(r.gs)
           /\ r.gs.players[ctx.attacker].position = gs.players[ctx.attacker].position
           /\ \A p \in Ids(gs) :
                  r.gs.players[p].knocked_out =
                      (gs.players[p].knocked_out \/ (ctx.knock_out /\ p = ctx.defender))

C11_Witness ==
    /\ last = [op |-> "Push", ok |-> TRUE]
    /\ gs.procedure = "FollowUp"
    /\ Len(PushChain(gs)) = 2
    /\ gs.block_context[1].knock_out
    /\ gs.players[gs.block_context[1].defender].knocked_out
    /\ \A i \in 1..2 : gs.players[PushChain(gs)[i].defender].position = PushChain(gs)[i].position

\* the players of the chain of s: the defenders of its records
ChainDefenders(s) == {PushChain(s)[i].defender : i \in 1..Len(PushChain(s))}

\* the players on the ball's square that are up, not stunned, not knocked out
\* and stand in the scoring column of their own team
Scorers(s) ==
    {p \in OccupantsOf(s, s.balls[1].position) :
        /\ s.players[p].up
        /\ ~s.players[p].stunned
        /\ ~s.players[p].knocked_out
        /\ InScoringColumn(s.players[p].team, s.players[p].position)}

(* C12: after a Push into an empty square has executed the chain, a        *)
(* carried ball has moved with its carrier if the carrier was pushed; if   *)
(* the player on the ball's square is up, not stunned, not knocked out and *)
(* stands in its own team's scoring column (x = 1 home, x = ARENA_WIDTH - 1 *)
(* away), procedure is Touchdown and that team's score is one higher;      *)
(* otherwise procedure is FollowUp and no score has changed.               *)
C12_PushChainBallAndTouchdown ==
    \A action \in PushesIntoEmpty :
        LET r == push_execution(gs, action)
            s == r.gs
            carriers == IF gs.balls[1].is_carried
                        THEN OccupantsOf(gs, gs.balls[1].position) ELSE {}
        IN /\ r.ok
           /\ s.balls[1].is_carried = gs.balls[1].is_carried
           /\ \A c \in carriers : s.balls[1].position = s.players[c].position
           /\ (carriers \cap ChainDefenders(s) = {} => s.balls[1].position = gs.balls[1].position)
           /\ IF Scorers(s) # {}
              THEN /\ s.procedure = "Touchdown"
                   /\ \A p \in Scorers(s) :
                          /\ ScoreOf(s, s.players[p].team) = ScoreOf(gs, s.players[p].team) + 1
                          /\ ScoreOf(s, OppTeam(s, s.players[p].team))
                                = ScoreOf(gs, OppTeam(s, s.players[p].team))
              ELSE /\ s.procedure = "FollowUp"
                   /\ s.score = gs.score

C12_Witness ==
    /\ last = [op |-> "Push", ok |-> TRUE]
    /\ gs.procedure = "Touchdown"
    /\ gs.score = [home |-> 1, away |-> 0]
    /\ gs.balls[1].is_carried
    /\ Len(PushChain(gs)) = 2
    /\ gs.balls[1].position = gs.players[TailOf(gs).defender].position
    /\ gs.balls[1].position = TailOf(gs).position

\* the push-into-touchdown scenario: a1 on (3,7) has blocked h1 on (2,7), which
\* carries the ball, SelectPush was chosen and the Push to (1,7) is offered
PushIntoTouchdownScenario ==
    /\ NewAction("Push", None, Sq(1, 7)) \in PushesIntoEmpty
    /\ gs.players["a1"].position = Sq(3, 7)
    /\ gs.players["h1"].position = Sq(2, 7)
    /\ gs.balls[1] = Ball(Sq(2, 7), TRUE)
    /\ gs.block_context[1].attacker = "a1"
    /\ gs.block_context[1].defender = "h1"
    /\ ~gs.block_context[1].knock_out
    /\ Len(PushChain(gs)) = 1

PushedIntoTouchdown == push_execution(gs, NewAction("Push", None, Sq(1, 7)))

(* C13 as stated: in the push-into-touchdown scenario, once the push       *)
(* resolves, procedure is Touchdown, the away team's score has increased   *)
(* by 1 and the ball is at (1,7).                                          *)
C13_PushIntoTouchdownAwayScores ==
    PushIntoTouchdownScenario =>
        /\ PushedIntoTouchdown.ok
        /\ PushedIntoTouchdown.gs.procedure = "Touchdown"
        /\ PushedIntoTouchdown.gs.score.away = gs.score.away + 1
        /\ PushedIntoTouchdown.gs.balls[1].position = Sq(1, 7)

(* C13 amended: in the push-into-touchdown scenario, once the push         *)
(* resolves, procedure is Touchdown, the ball is at (1,7) with the pushed  *)
(* home player, and it is the home team's score that has increased by 1;   *)
(* the away team's score is unchanged.                                     *)
C13_PushIntoTouchdownHomeScores ==
    PushIntoTouchdownScenario =>
        /\ PushedIntoTouchdown.ok
        /\ PushedIntoTouchdown.gs.procedure = "Touchdown"
        /\ PushedIntoTouchdown.gs.score.home = gs.score.home + 1
        /\ PushedIntoTouchdown.gs.score.away = gs.score.away
        /\ PushedIntoTouchdown.gs.balls[1].position = Sq(1, 7)
        /\ PushedIntoTouchdown.gs.players["h1"].position = Sq(1, 7)

C13_Witness ==
    /\ last = [op |-> "Push", ok |-> TRUE]
    /\ gs.procedure = "Touchdown"
    /\ gs.players["a1"].position = Sq(3, 7)
    /\ gs.players["h1"].position = Sq(1, 7)
    /\ gs.balls[1] = Ball(Sq(1, 7), TRUE)
    /\ gs.block_context[1].defender = "h1"
    /\ ~gs.block_context[1].knock_out
    /\ PushChain(gs) = <<PushChainItem("a1", "h1", Sq(1, 7))>>
    /\ gs.score = [home |-> 1, away |-> 0]

----------------------------------------------------------------------------
(* Properties of the follow-up and of the block roll, checked under        *)
(* SpecBlock.                                                              *)

(* C14: follow_up_execution sets the attacker's has_blocked, places the    *)
(* attacker on the chosen square and clears block_context; with            *)
(* parent_procedure BlitzAction the procedure becomes BlitzAction and the  *)
(* attacker is not marked used, otherwise the attacker is marked used and  *)
(* procedure becomes Turn.                                                 *)
C14_FollowUpExecution ==
    (Discovered /\ gs.procedure = "FollowUp") =>
        \A action \in DiscoveredActions(gs) :
            LET r == follow_up_execution(gs, action)
                attacker == gs.block_context[1].attacker
            IN /\ r.ok
               /\ r.gs.players[attacker].has_blocked
               /\ r.gs.players[attacker].position = action.position
               /\ r.gs.block_context = NoneOpt
               /\ IF gs.parent_procedure = "BlitzAction"
                  THEN /\ r.gs.procedure = "BlitzAction"
                       /\ r.gs.players[attacker].used = gs.players[attacker].used
                       /\ ~r.gs.players[attacker].used
                  ELSE /\ r.gs.procedure = "Turn"
                       /\ r.gs.players[attacker].used

C14_Witness ==
    /\ last = [op |-> "FollowUp", ok |-> TRUE]
    /\ gs.procedure = "BlitzAction"
    /\ gs.block_context = NoneOpt
    /\ gs.players["h1"].has_blocked
    /\ ~gs.players["h1"].used
    /\ gs.players["h1"].position # AttackerSquare

BlockFaces ==
    << "SelectDefenderStumbles", "SelectDefenderDown", "SelectPush",
       "SelectBothDown", "SelectAttackerDown" >>

BlockFaceSixths == <<1, 1, 2, 1, 1>>

(* C15: block_rollout on a BlockRoll state returns exactly five outcomes,  *)
(* one per face SelectDefenderStumbles, SelectDefenderDown, SelectPush,    *)
(* SelectBothDown, SelectAttackerDown with probabilities 1/6, 1/6, 2/6,    *)
(* 1/6, 1/6; each resulting state has procedure Block and rolls the        *)
(* one-element list of that face and is otherwise equal to the input.      *)
C15_BlockRollout ==
    (last.op = "block_rollout" /\ gs.procedure = "BlockRoll") =>
        /\ last.ok
        /\ Len(outcomes) = 5
        /\ \A i \in 1..5 :
              /\ outcomes[i].probability = BlockFaceSixths[i]
              /\ outcomes[i].resulting_state.procedure = "Block"
              /\ outcomes[i].resulting_state.rolls = <<BlockFaces[i]>>
              /\ [outcomes[i].resulting_state
                     EXCEPT !.procedure = gs.procedure, !.rolls = gs.rolls] = gs

C15_Witness ==
    /\ last = [op |-> "block_rollout", ok |-> TRUE]
    /\ gs.procedure = "BlockRoll"
    /\ gs.parent_procedure = "BlitzAction"
    /\ gs.block_context # NoneOpt
    /\ Len(outcomes) = 5
    /\ outcomes[3].resulting_state.rolls = <<"SelectPush">>

----------------------------------------------------------------------------
(* Properties of the turn, checked under SpecTurn.                         *)

AvailabilityFlags ==
    {"blitz_available", "pass_available", "handoff_available", "foul_available"}

StartOf(flag) ==
    CASE flag = "blitz_available" -> "StartBlitz"
      [] flag = "pass_available" -> "StartPass"
      [] flag = "handoff_available" -> "StartHandoff"
      [] flag = "foul_available" -> "StartFoul"

Offered(s, action_type) ==
    \E i \in 1..Len(s.available_actions) : s.available_actions[i].action_type = action_type

\* Turn discovery offers no StartX whose flag is cleared, and no rollout outcome sets a flag
ClearedIsNotOffered ==
    \A flag \in AvailabilityFlags :
        ~gs.turn_state[1][flag] =>
            /\ gs.procedure = "Turn" => ~Offered(turn_discovery(gs).gs, StartOf(flag))
            /\ \A i \in 1..Len(outcomes) :
                  ~outcomes[i].resulting_state.turn_state[1][flag]

\* a successful StartX leaves its flag cleared, and no step sets a cleared flag
FlagsOnlyCleared ==
    \A flag \in AvailabilityFlags :
        /\ (last'.op = StartOf(flag) /\ last'.ok) => ~gs'.turn_state[1][flag]
        /\ ~gs.turn_state[1][flag] => ~gs'.turn_state[1][flag]

(* C16: within a turn, executing StartBlitz, StartPass, StartHandoff or    *)
(* StartFoul clears its own availability flag, no execution and no rollout *)
(* outcome sets a cleared flag back to true, and Turn discovery never      *)
(* again offers the StartX action whose flag has been cleared.             *)
C16_AvailabilityFlags == []ClearedIsNotOffered /\ [][FlagsOnlyCleared]_vars

C16_Witness ==
    /\ last = [op |-> "discover_actions", ok |-> TRUE]
    /\ gs.procedure = "Turn"
    /\ ~gs.turn_state[1].foul_available
    /\ gs.turn_state[1].blitz_available
    /\ Offered(gs, "StartBlitz")
    /\ ~Offered(gs, "StartFoul")

PathProcedures == {"MoveAction", "BlitzAction", "HandoffAction", "FoulAction"}

\* what discovery offers while an active path is attached
PathDiscovery ==
    (gs.active_path # NoneOpt /\ HasPlayer(gs, gs.active_player_id)) =>
        LET ps == gs.active_path[1]
            r == discover_actions(gs)
        IN /\ (gs.procedure \in PathProcedures /\ ps.current_step < Len(ps.squares)) =>
                 /\ r.ok
                 /\ r.gs.available_actions =
                        <<NewAction("Move", None, ps.squares[ps.current_step + 1])>>
           /\ (gs.procedure = "MoveAction" /\ ps.current_step = Len(ps.squares)) =>
                 /\ r.ok
                 /\ r.gs.available_actions = <<NewAction("EndPlayerTurn", None, NoSquare)>>

\* a step taken while the path is incomplete: the player stays where it is and the
\* path is as it was, or the player is on the next square of the path and the path
\* has advanced by one (it is dropped when that was its last square and the ball
\* was picked up there); a failed roll leaves the player down on the next square
\* and ends the turn
PathStep ==
    (gs.active_path # NoneOpt /\ HasPlayer(gs, gs.active_player_id)
         /\ gs.active_path[1].current_step < Len(gs.active_path[1].squares)) =>
        LET ps == gs.active_path[1]
            id == gs.active_player_id
        IN \/ /\ gs'.players[id].position = gs.players[id].position
              /\ gs'.active_path = gs.active_path
           \/ /\ gs'.players[id].position = ps.squares[ps.current_step + 1]
              /\ \/ gs'.active_path = <<[ps EXCEPT !.current_step = @ + 1]>>
                 \/ /\ gs'.active_path = NoneOpt
                    /\ ps.current_step + 1 = Len(ps.squares)
                 \/ /\ gs'.active_path = gs.active_path
                    /\ ~gs'.players[id].up
                    /\ gs'.procedure = "Turnover"

(* C17: while an active path is attached and incomplete, discovery for     *)
(* MoveAction, BlitzAction, HandoffAction and FoulAction offers exactly    *)
(* one action, a Move to the path's next square; once current_step equals  *)
(* the path's length, MoveAction discovery offers exactly EndPlayerTurn;   *)
(* the steps taken on the path visit its squares in order, one square per  *)
(* successful step.                                                        *)
C17_ActivePath == []PathDiscovery /\ [][PathStep]_vars

C17_Witness ==
    /\ last = [op |-> "discover_actions", ok |-> TRUE]
    /\ gs.procedure = "BlitzAction"
    /\ gs.active_path # NoneOpt
    /\ Len(gs.active_path[1].squares) = 2
    /\ gs.active_path[1].current_step = 1
    /\ gs.players[gs.active_player_id].position = gs.active_path[1].squares[1]
    /\ gs.available_actions = <<NewAction("Move", None, gs.active_path[1].squares[2])>>

\* the state of the node and the states of its rollout outcomes
NodeStates == {gs} \cup {outcomes[i].resulting_state : i \in 1..Len(outcomes)}

OneCarrier(s) ==
    (get_ball_position(s) # NoSquare /\ is_ball_carried(s)) =>
        Cardinality(PlayersAt(s, get_ball_position(s))) <= 1

(* C20: from a state in which no two players share a square, after any     *)
(* sequence of successful execute_action calls on discovered actions and   *)
(* of rollout outcomes, no two players occupy the same square and at most  *)
(* one player stands on the carried ball's square.                         *)
C20_NoTwoPlayersOnASquare ==
    last.ok => \A s \in NodeStates : NoSharedSquare(s) /\ OneCarrier(s)

C20_Witness ==
    /\ last = [op |-> "FollowUp", ok |-> TRUE]
    /\ gs.procedure = "BlitzAction"
    /\ is_ball_carried(gs)
    /\ Cardinality(PlayersAt(gs, get_ball_position(gs))) = 1
    /\ gs.players[gs.active_player_id].position
           \notin {StartSquare(gs.current_team_id), MateSquare(gs.current_team_id)}
    /\ gs.players[gs.active_player_id].moves > 0

----------------------------------------------------------------------------
(* Properties of Action, checked under SpecAction.                         *)

SameFields(self, other) ==
    <<self.action_type, self.player, self.position>>
        = <<other.action_type, other.player, other.position>>

(* C19: two Action values with the same (action_type, player, position)    *)
(* are equal and hash to the same value whether or not either carries a    *)
(* Path and whatever the paths contain; actions that differ in any of the  *)
(* three fields are unequal.                                               *)
C19_ActionEqualityIgnoresPath ==
    LET self == gs.available_actions[1]
        other == gs.available_actions[2]
    IN /\ last.op = "eq" => (last.ok <=> SameFields(self, other))
       /\ (last.op = "hash" /\ SameFields(self, other)) => last.ok

C19_Witness ==
    /\ last = [op |-> "eq", ok |-> TRUE]
    /\ gs.available_actions[1].path = <<(<<Sq(1, 1), Sq(2, 2)>>)>>
    /\ gs.available_actions[2].path = <<(<<Sq(2, 1), Sq(2, 2)>>)>>

----------------------------------------------------------------------------
(* Properties of Turn discovery, checked under SpecTurnDiscovery.          *)

OnPitchUnusedUp(s, id) ==
    /\ s.players[id].position # NoSquare
    /\ ~s.players[id].used
    /\ s.players[id].up

NormalTurn(s) == ~s.turn_state[1].blitz /\ ~s.turn_state[1].quick_snap

StandingOpponentNextTo(s, id) ==
    \E o \in TeamIds(s, OppTeam(s, s.current_team_id)) :
        /\ s.players[o].position # NoSquare
        /\ distance(s.players[o].position, s.players[id].position) = 1
        /\ s.players[o].up

EmitsStartBlock(s, id) == NewAction("StartBlock", id, NoSquare) \in DiscoveredActions(s)

StartBlockConditions(s, id) ==
    OnPitchUnusedUp(s, id) /\ NormalTurn(s) /\ StandingOpponentNextTo(s, id)

TurnDiscovered == last.op = "discover_actions" /\ gs.procedure = "Turn"

\* C29 as stated: StartBlock is emitted for a player of the acting team if and
\* only if the player is on the pitch, not used and up, the turn is neither a
\* blitz nor a quick snap, and an adjacent opposing player is up.
C29_StartBlockIff ==
    TurnDiscovered =>
        \A id \in TeamIds(gs, gs.current_team_id) :
            EmitsStartBlock(gs, id) <=> StartBlockConditions(gs, id)

(* C29: when Turn discovery succeeds it emits StartBlock for a player of   *)
(* the acting team if and only if that player is on the pitch, not used    *)
(* and up, blitz and quick_snap are both false, and at least one adjacent  *)
(* opposing player is up; it fails, emitting no StartBlock, exactly when   *)
(* an opposing player has no position while, in a turn that is neither a   *)
(* blitz nor a quick snap, a player of the acting team is on the pitch,    *)
(* not used and up.                                                        *)
C29_StartBlockIffWhenDiscoverySucceeds ==
    TurnDiscovered =>
        LET own == TeamIds(gs, gs.current_team_id)
            others == TeamIds(gs, OppTeam(gs, gs.current_team_id))
        IN /\ last.ok =>
                 \A id \in own : EmitsStartBlock(gs, id) <=> StartBlockConditions(gs, id)
           /\ ~last.ok => \A id \in own : ~EmitsStartBlock(gs, id)
           /\ ~last.ok <=>
                 /\ \E o \in others : gs.players[o].position = NoSquare
                 /\ NormalTurn(gs)
                 /\ \E id \in own : OnPitchUnusedUp(gs, id)

C29_Witness ==
    /\ last = [op |-> "discover_actions", ok |-> TRUE]
    /\ gs.procedure = "Turn"
    /\ EmitsStartBlock(gs, "h1")
    /\ ~EmitsStartBlock(gs, "h2")
    /\ OnPitchUnusedUp(gs, "h2")
    /\ ~gs.players["a2"].up

----------------------------------------------------------------------------
(* Properties of the search tree, checked under SpecSearch.                *)

DecisionNodes(ns) == {i \in NodeIndices(ns) : NodeAt(ns, i).node_type = "Decision"}

ChanceNodes(ns) == {i \in NodeIndices(ns) : NodeAt(ns, i).node_type = "Chance"}

\* following the parent links from node_index reaches the root in at most
\* `steps` steps
RECURSIVE ReachesRoot(_, _, _)
ReachesRoot(ns, node_index, steps) ==
    IF node_index = root_index THEN TRUE
    ELSE IF steps = 0 \/ NodeAt(ns, node_index).parent = NoneOpt THEN FALSE
    ELSE ReachesRoot(ns, NodeAt(ns, node_index).parent[1], steps - 1)

\* C21: after any sequence of select, expand and backpropagate every node
\* other than the root has a parent, created before it (of a smaller index),
\* and the parent links of every node lead to the root in finitely many steps.
C21_ArenaSoundness ==
    \A i \in NodeIndices(nodes) :
        /\ i # root_index =>
              /\ NodeAt(nodes, i).parent # NoneOpt
              /\ NodeAt(nodes, i).parent[1] \in NodeIndices(nodes)
              /\ NodeAt(nodes, i).parent[1] < i
        /\ ReachesRoot(nodes, i, Len(nodes))

\* a visited node two levels below the root
C21_Witness ==
    \E i \in NodeIndices(nodes) :
        /\ NodeAt(nodes, i).parent # NoneOpt
        /\ NodeAt(nodes, i).parent[1] # root_index
        /\ NodeAt(nodes, i).visits > 0
        /\ NodeAt(nodes, root_index).visits > 0

\* C22: the chance_probability values of the children of every chance node
\* that has children sum to 1.
C22_ChanceProbabilityClosure ==
    \A i \in ChanceNodes(nodes) :
        NodeAt(nodes, i).chance_children # <<>> =>
            CumulativeProbability(nodes, NodeAt(nodes, i).chance_children,
                                  Len(NodeAt(nodes, i).chance_children)) = ONE

\* an expanded chance node with two outcomes of different probability
C22_Witness ==
    \E i \in ChanceNodes(nodes) :
        /\ Len(NodeAt(nodes, i).chance_children) = 2
        /\ NodeAt(nodes, NodeAt(nodes, i).chance_children[1]).chance_probability = 5
        /\ NodeAt(nodes, NodeAt(nodes, i).chance_children[2]).chance_probability = 1

RootChildren == NodeAt(nodes, root_index).decision_children

Visited(e) == NodeAt(nodes, e.child).visits > 0

\* C23: get_best_action fails when the root has no children; when some child
\* of the root is visited it returns the key of a visited child whose
\* total_score / visits is maximal among the visited children; when no child
\* is visited it returns the key of some child.
C23_BestAction ==
    (last.op = "get_best_action") =>
        /\ RootChildren = {} => result = SearchErr
        /\ RootChildren # {} =>
              /\ result[1].ok
              /\ \E e \in RootChildren :
                    /\ e.action = result[1].action
                    /\ (\E v \in RootChildren : Visited(v)) =>
                          /\ Visited(e)
                          /\ \A o \in RootChildren :
                                Visited(o) =>
                                    NodeAt(nodes, e.child).total_score * NodeAt(nodes, o.child).visits
                                        >= NodeAt(nodes, o.child).total_score * NodeAt(nodes, e.child).visits

\* get_best_action on a root with an unvisited child and two visited
\* children of different average score
C23_Witness ==
    /\ last.op = "get_best_action"
    /\ result # NoneOpt
    /\ \E u, v, w \in RootChildren :
          /\ ~Visited(u)
          /\ Visited(v)
          /\ Visited(w)
          /\ NodeAt(nodes, v.child).total_score * NodeAt(nodes, w.child).visits
                 > NodeAt(nodes, w.child).total_score * NodeAt(nodes, v.child).visits

\* the iteration that took this step selected a node that is not terminal
\* and whose expansion fails
ExpansionFails ==
    /\ last'.op = "search"
    /\ nodes # <<>>
    /\ ~NodeAt(nodes, last'.selected).is_terminal
    /\ ~expand(nodes, last'.selected).ok

\* C24: an iteration of the search whose expansion fails (execute_action,
\* discover_actions or rollout_chance_outcomes returns an error) makes the
\* search return an error instead of an action, and a search that has
\* returned takes no further step.
C24_ExpansionErrorsSurface ==
    [][/\ result = NoneOpt
       /\ ExpansionFails => result' = SearchErr]_vars

\* the search returned the error of the rollout of a chance node
C24_Witness ==
    /\ last.op = "search"
    /\ result = SearchErr
    /\ NodeAt(nodes, last.selected).node_type = "Chance"
    /\ NodeAt(nodes, last.selected).chance_children = <<>>

\* the actions of the state that are not pruned from the search
Supported(state) ==
    {k \in 1..Len(state.available_actions) :
        state.available_actions[k].action_type
            \notin {"StartBlitz", "StartPass", "StartHandoff", "StartFoul"}}

\* C28: a decision node is terminal exactly when no action of its state is
\* left after StartBlitz, StartPass, StartHandoff and StartFoul are removed,
\* or the game is over, or the procedure is EndTurn, Touchdown or Turnover.
C28_TerminalDecisionNode ==
    \A i \in DecisionNodes(nodes) :
        NodeAt(nodes, i).is_terminal <=>
            \/ Supported(NodeAt(nodes, i).state) = {}
            \/ NodeAt(nodes, i).state.game_over
            \/ NodeAt(nodes, i).state.procedure \in {"EndTurn", "Touchdown", "Turnover"}

\* a node that is not terminal although actions of its state are pruned,
\* and a node that is terminal by its procedure with actions left
C28_Witness ==
    /\ \E i \in DecisionNodes(nodes) :
          /\ ~NodeAt(nodes, i).is_terminal
          /\ Supported(NodeAt(nodes, i).state) # DOMAIN NodeAt(nodes, i).state.available_actions
    /\ \E i \in DecisionNodes(nodes) :
          /\ NodeAt(nodes, i).is_terminal
          /\ ~NodeAt(nodes, i).state.game_over
          /\ Supported(NodeAt(nodes, i).state) # {}

----------------------------------------------------------------------------
(* Properties of the pathfinder, checked under SpecPathfinder.             *)

\* the player the paths are found for
Mover == gs.players[gs.active_player_id]

Returned == last # NoCall /\ last.op = "find_all_paths" /\ last.ok

PathIndices == 1..Len(found)

Adjacent(a, b) ==
    /\ a # b
    /\ a[1] - b[1] \in -1..1
    /\ a[2] - b[2] \in -1..1

InPitchInterior(sq) ==
    /\ sq[1] >= 1 /\ sq[1] <= ARENA_WIDTH - 2
    /\ sq[2] >= 1 /\ sq[2] <= ARENA_HEIGHT - 2

Unoccupied(sq) == \A id \in DOMAIN gs.players : gs.players[id].position # sq

\* the standing, unstunned opponents of the mover next to the square
OpposingTackleZones(sq) ==
    {id \in DOMAIN gs.players :
        /\ gs.players[id].team # Mover.team
        /\ gs.players[id].position # NoSquare
        /\ gs.players[id].up /\ ~gs.players[id].stunned
        /\ Adjacent(gs.players[id].position, sq)}

QuickSnap == gs.turn_state # NoneOpt /\ gs.turn_state[1].quick_snap

\* the steps of normal movement the mover has left: one under quick snap
NormalMovementLeft ==
    IF QuickSnap THEN 1
    ELSE IF Mover.ma > Mover.moves THEN Mover.ma - Mover.moves ELSE 0

\* the GFIs the mover has left: none under quick snap
GfisLeft ==
    IF QuickSnap THEN 0
    ELSE IF Mover.moves <= Mover.ma THEN MAX_GFI
    ELSE IF Mover.moves <= Mover.ma + MAX_GFI THEN Mover.ma + MAX_GFI - Mover.moves
    ELSE 0

\* the factor of a GFI, in sixths: 2+ on the die, 3+ in a blizzard
GfiFactor == IF gs.weather = "BLIZZARD" THEN 4 ELSE 5

\* the factor of a dodge into the square, in sixths: the roll needed is that
\* of the agility, one more, and one more per tackle zone on the square,
\* between 2 and 6
DodgeFactor(to) ==
    LET needed == AGILITY_TABLE[Mover.ag + 1] + 1 + Cardinality(OpposingTackleZones(to))
    IN 7 - (IF needed < 2 THEN 2 ELSE IF needed > 6 THEN 6 ELSE needed)

InTackleZone(sq) == OpposingTackleZones(sq) # {}

\* the square the k-th step of the path leaves
Left(path, k) == IF k = 1 THEN Mover.position ELSE path.squares[k - 1]

\* the product of the factors of the first k steps of the path, in parts of
\* PROB_ONE; a step out of a tackle zone takes a dodge, but for a quick snap
\* when `quick_snap_exempt`
RECURSIVE StepProduct(_, _, _)
StepProduct(path, k, quick_snap_exempt) ==
    IF k = 0 THEN PROB_ONE
    ELSE LET before == StepProduct(path, k - 1, quick_snap_exempt)
             afterGfi == IF k > NormalMovementLeft
                         THEN (before * GfiFactor) \div 6 ELSE before
         IN IF InTackleZone(Left(path, k)) /\ ~(quick_snap_exempt /\ QuickSnap)
            THEN (afterGfi * DodgeFactor(path.squares[k])) \div 6
            ELSE afterGfi

\* the squares of the path lead from the mover to the target over interior,
\* unoccupied squares
Feasible(path) ==
    /\ Len(path.squares) >= 1
    /\ \A k \in 1..Len(path.squares) :
           /\ Adjacent(Left(path, k), path.squares[k])
           /\ InPitchInterior(path.squares[k])
           /\ Unoccupied(path.squares[k])
    /\ path.squares[Len(path.squares)] = path.target

\* C25 as stated: every returned path is feasible and its prob is the
\* product over its steps of the GFI factor, when the step is taken with no
\* normal movement left, and the dodge factor, when the square left is in an
\* opposing tackle zone
C25_PathFeasibility ==
    Returned =>
        \A i \in PathIndices :
            /\ Feasible(found[i])
            /\ found[i].prob
                   = StepProduct(found[i], Len(found[i].squares), FALSE)

(* C25: every path find_all_paths returns starts next to the square of the *)
(* player, goes over adjacent squares, ends on its target, visits only     *)
(* interior, unoccupied squares, and its prob is the product over its      *)
(* steps of the GFI factor, when the step is taken with no normal movement *)
(* left, and the dodge factor, when the square left is in an opposing      *)
(* tackle zone and the turn is not a quick snap.                           *)
C25_PathFeasibilityOutsideQuickSnapDodge ==
    Returned =>
        \A i \in PathIndices :
            /\ Feasible(found[i])
            /\ found[i].prob
                   = StepProduct(found[i], Len(found[i].squares), TRUE)

\* a returned path of three steps, the first a dodge and the last a GFI
C25_Witness ==
    /\ Returned
    /\ \E i \in PathIndices :
           /\ Len(found[i].squares) = 3
           /\ NormalMovementLeft = 1
           /\ ~QuickSnap /\ InTackleZone(Mover.position)
           /\ found[i].prob < PROB_ONE

(* C27: for a player who has used m moves of the allowance ma, outside     *)
(* quick snap every returned path has moves_used + gfis_used equal to m    *)
(* plus the number of its squares, at most ma + 2, with gfis_used at most  *)
(* 2, uses a GFI only once the normal movement is exhausted, and no path   *)
(* is returned when m >= ma + 2; under quick snap every returned path has  *)
(* exactly one square.                                                     *)
C27_MovementBudget ==
    Returned =>
        IF QuickSnap
        THEN \A i \in PathIndices : Len(found[i].squares) = 1
        ELSE /\ \A i \in PathIndices :
                    /\ found[i].moves_used + found[i].gfis_used
                           = Mover.moves + Len(found[i].squares)
                    /\ found[i].moves_used + found[i].gfis_used <= Mover.ma + 2
                    /\ found[i].gfis_used <= 2
                    /\ found[i].gfis_used > 0 => found[i].moves_used >= Mover.ma
             /\ Mover.moves >= Mover.ma + 2 => found = <<>>

\* the player has used the allowance and one GFI, and a path of one more GFI
\* is returned
C27_Witness ==
    /\ Returned
    /\ ~QuickSnap
    /\ Mover.moves = Mover.ma + 1
    /\ \E i \in PathIndices : found[i].gfis_used = 2 /\ Len(found[i].squares) = 1

\* the squares a step from the square may go to
StepsFrom(sq) ==
    {to \in {<<sq[1] + dx, sq[2] + dy>> : dx \in -1..1, dy \in -1..1} :
        Adjacent(sq, to) /\ InPitchInterior(to) /\ Unoccupied(to)}

\* the probability after the k-th step, from `from` to `to`, of a sequence
\* that had the probability `before`
AfterStep(before, from, to, k) ==
    LET afterGfi == IF k > NormalMovementLeft THEN (before * GfiFactor) \div 6 ELSE before
    IN IF InTackleZone(from) /\ ~QuickSnap
       THEN (afterGfi * DodgeFactor(to)) \div 6
       ELSE afterGfi

\* the ends [pos, prob] of the step sequences of exactly k steps from the
\* square of the mover whose cumulative probability is at least 0.01
RECURSIVE FeasibleEnds(_)
FeasibleEnds(k) ==
    IF k = 0 THEN {[pos |-> Mover.position, prob |-> PROB_ONE]}
    ELSE {end \in UNION {{[pos |-> to, prob |-> AfterStep(e.prob, e.pos, to, k)] :
                              to \in StepsFrom(e.pos)} : e \in FeasibleEnds(k - 1)} :
             end.prob * 100 >= PROB_ONE}

\* the ends of the step sequences within the remaining moves and GFIs
Reachable == UNION {FeasibleEnds(k) : k \in 1..(NormalMovementLeft + GfisLeft)}

(* C26: find_all_paths returns exactly one path for every interior,        *)
(* unoccupied square other than the start that a step sequence over        *)
(* unoccupied interior squares reaches within the remaining moves and GFIs *)
(* with a cumulative probability of at least 0.01, no path for any other   *)
(* square, and the prob of the path is the greatest of the probabilities   *)
(* of the feasible step sequences to its target.                           *)
C26_OneBestPathPerReachableSquare ==
    Returned =>
        /\ \A i, j \in PathIndices : found[i].target = found[j].target => i = j
        /\ {found[i].target : i \in PathIndices} = {end.pos : end \in Reachable}
        /\ \A i \in PathIndices :
               /\ \E end \in Reachable :
                      end.pos = found[i].target /\ end.prob = found[i].prob
               /\ \A end \in Reachable :
                      end.pos = found[i].target => end.prob <= found[i].prob

\* a square is reached by step sequences of different probabilities, and
\* another square within the remaining moves and GFIs only with less than 0.01
C26_Witness ==
    /\ Returned
    /\ \E i \in PathIndices : \E end \in Reachable :
           end.pos = found[i].target /\ end.prob < found[i].prob
    /\ NormalMovementLeft + GfisLeft = 3
    /\ \E e \in FeasibleEnds(2) : \E to \in StepsFrom(e.pos) :
           /\ AfterStep(e.prob, e.pos, to, 3) * 100 < PROB_ONE
           /\ \A i \in PathIndices : found[i].target # to

----------------------------------------------------------------------------
(* Further properties of the search tree, checked under SpecSearch.        *)

\* the node is one select may stop on: terminal, a decision node with an
\* untried action, or a chance node without outcome children
Expandable(node) ==
    \/ node.is_terminal
    \/ node.node_type = "Decision" /\ node.untried_actions # <<>>
    \/ node.node_type = "Chance" /\ node.chance_children = <<>>

Expanded == last'.op = "expand" /\ last'.ok

\* the child is a decision node on the state of a fresh discover_actions,
\* with the actions of the discovery that the search does not prune
FreshDecision(child, discovered) ==
    /\ discovered.ok
    /\ child.state = discovered.gs
    /\ child.untried_actions
           = SelectSeq(discovered.gs.available_actions,
                       LAMBDA action : action.action_type \notin UntriedTypesPruned)

\* the new child of the node `parent` for the state the execution or the
\* outcome ended in
ChildFor(child, parent, state_after) ==
    /\ child.parent = <<parent>>
    /\ child.visits = 0
    /\ child.node_type \in {"Chance", "Decision"}
    /\ child.node_type = "Chance"
           <=> child.state.procedure \in {"BlockRoll", "GFI", "Dodge"}
    /\ IF state_after.procedure \in {"BlockRoll", "GFI", "Dodge"}
       THEN child.state = state_after
       ELSE FreshDecision(child, discover_actions(state_after))

\* the nodes other than `node_index` are as they were
OthersKept(before, after, node_index) ==
    /\ Len(after) >= Len(before)
    /\ \A j \in 1..Len(before) : j # node_index + 1 => after[j] = before[j]

\* expand on the decision node: the first untried action is removed and
\* executed, and its one new child is recorded under it
DecisionExpansion(before, after, node_index, index, executed) ==
    /\ before[node_index + 1].untried_actions # <<>>
    /\ executed.ok
    /\ OthersKept(before, after, node_index)
    /\ Len(after) = Len(before) + 1
    /\ index = Len(before)
    /\ after[node_index + 1]
           = [before[node_index + 1] EXCEPT
                 !.untried_actions = Tail(@),
                 !.decision_children =
                     @ \cup {[action |-> Head(before[node_index + 1].untried_actions),
                              child |-> index]}]
    /\ \A e \in before[node_index + 1].decision_children : e.child # index
    /\ ChildFor(after[index + 1], node_index, executed.gs)

\* expand on the chance node without children: one child per outcome of
\* the rollout, in their order, the first of them returned
ChanceExpansion(before, after, node_index, index, rolled) ==
    /\ before[node_index + 1].chance_children = <<>>
    /\ rolled.ok
    /\ OthersKept(before, after, node_index)
    /\ Len(after) = Len(before) + Len(rolled.outcomes)
    /\ index = Len(before)
    /\ after[node_index + 1]
           = [before[node_index + 1] EXCEPT
                 !.chance_children = [k \in 1..Len(rolled.outcomes) |-> Len(before) + k - 1]]
    /\ \A k \in 1..Len(rolled.outcomes) :
           /\ after[Len(before) + k].chance_probability = rolled.outcomes[k].probability
           /\ ChildFor(after[Len(before) + k], node_index,
                       rolled.outcomes[k].resulting_state)

(* C32: expand on a decision node removes the first untried action,        *)
(* executes it on a copy of the state of the node and records exactly one  *)
(* new child under that action; expand on a chance node without children   *)
(* creates one child per outcome of the rollout, with the probability of   *)
(* the outcome as chance_probability, and returns the first of them; the   *)
(* new child is a chance node if and only if the procedure of its state is *)
(* BlockRoll, GFI or Dodge, and otherwise a decision node whose untried    *)
(* actions come from a fresh discover_actions on its state.                *)
C32_Expand ==
    [][Expanded =>
          IF nodes[last'.node + 1].node_type = "Decision"
          THEN DecisionExpansion(
                   nodes, nodes', last'.node, last'.index,
                   execute_action(nodes[last'.node + 1].state,
                                  Head(nodes[last'.node + 1].untried_actions)))
          ELSE ChanceExpansion(
                   nodes, nodes', last'.node, last'.index,
                   rollout_chance_outcomes(nodes[last'.node + 1].state))]_vars

\* a chance node below the root was expanded into two children, one of them
\* a decision node
C32_Witness ==
    /\ last.op = "expand"
    /\ last.ok
    /\ nodes[last.node + 1].node_type = "Chance"
    /\ Len(nodes[last.node + 1].chance_children) = 2
    /\ nodes[last.node + 1].parent # NoneOpt
    /\ \E k \in 1..2 :
           nodes[nodes[last.node + 1].chance_children[k] + 1].node_type = "Decision"

\* the node and its ancestors up to the root, by the parent links
RECURSIVE PathToRoot(_, _)
PathToRoot(ns, node_index) ==
    IF ns[node_index + 1].parent = NoneOpt THEN {node_index}
    ELSE {node_index} \cup PathToRoot(ns, ns[node_index + 1].parent[1])

\* the nodes whose parent is the node
ChildrenOf(ns, node_index) ==
    {j \in NodeIndices(ns) : ns[j + 1].parent = <<node_index>>}

RECURSIVE SumOfVisits(_, _)
SumOfVisits(ns, indices) ==
    IF indices = {} THEN 0
    ELSE LET j == CHOOSE j \in indices : TRUE
         IN ns[j + 1].visits + SumOfVisits(ns, indices \ {j})

\* the step is backpropagate(last'.node, last'.score)
Backpropagated == last'.op = "backpropagate"

\* the step is an iteration of the search that completed
Iterated == last'.op = "search" /\ last'.ok

\* the visits of the tree: none on the root of a new tree, and on every
\* node at least those of its children together
VisitsSummed ==
    /\ (last.op = "new" /\ last.ok) => nodes[root_index + 1].visits = 0
    /\ \A i \in NodeIndices(nodes) :
           nodes[i + 1].visits >= SumOfVisits(nodes, ChildrenOf(nodes, i))

\* the step of backpropagate changes the path to the root and nothing else
BackpropagateStep ==
    Backpropagated =>
        /\ Len(nodes') = Len(nodes)
        /\ \A i \in NodeIndices(nodes) :
               IF i \in PathToRoot(nodes, last'.node)
               THEN nodes'[i + 1] = [nodes[i + 1] EXCEPT
                                        !.visits = @ + 1,
                                        !.total_score = @ + last'.score]
               ELSE nodes'[i + 1] = nodes[i + 1]

\* a completed iteration adds one visit to the root
IterationStep ==
    Iterated => nodes'[root_index + 1].visits = nodes[root_index + 1].visits + 1

(* C33: backpropagate(n, s) adds exactly 1 to visits and exactly s to      *)
(* total_score on n and on every ancestor of n up to the root, and leaves  *)
(* every other node as it was; every completed iteration of the search     *)
(* adds one visit to the root, which has none when the tree is new, so the *)
(* root has k visits after k iterations; and the visits of every node are  *)
(* at least the sum of the visits of its children.                         *)
C33_Backpropagate == []VisitsSummed /\ [][BackpropagateStep /\ IterationStep]_vars

\* a score other than 0 was backpropagated from a node two levels below the
\* root while another node of the tree is off its path
C33_Witness ==
    /\ last.op = "backpropagate"
    /\ last.score # 0
    /\ Cardinality(PathToRoot(nodes, last.node)) = 3
    /\ Len(nodes) > 3
    /\ nodes[root_index + 1].visits >= 2

----------------------------------------------------------------------------
(* Properties of the high kick, checked under SpecHighKick.                *)

\* a standing, unstunned player of the other team is next to the player
InOpposingZone(id) ==
    \E o \in DOMAIN gs.players :
        /\ gs.players[o].team # gs.players[id].team
        /\ gs.players[o].position # NoSquare
        /\ gs.players[o].up /\ ~gs.players[o].stunned
        /\ Adjacent(gs.players[o].position, gs.players[id].position)

\* the half of the pitch of the team: the home team has the columns from
\* the middle on
OnHalfOf(team, sq) ==
    IF team = "home" THEN 2 * sq[1] >= ARENA_WIDTH ELSE 2 * sq[1] < ARENA_WIDTH

HighKickDiscovered == last.op = "high_kick_discovery" /\ last.ok

\* C34 as stated: HighKick discovery offers SelectPlayer only for players of
\* the receiving team that are on the pitch, upright and in no opposing
\* tackle zone, and it offers them, followed by SelectNone, only when the
\* ball lies on the half of the receiving team on a square no player occupies
C34_HighKickDiscovery ==
    HighKickDiscovered =>
        /\ \A k \in 1..Len(gs.available_actions) :
               gs.available_actions[k].action_type = "SelectPlayer" =>
                   /\ gs.available_actions[k].player \in DOMAIN gs.players
                   /\ gs.players[gs.available_actions[k].player].team
                          = gs.receiving_this_drive
                   /\ gs.players[gs.available_actions[k].player].position # NoSquare
                   /\ gs.players[gs.available_actions[k].player].up
                   /\ ~InOpposingZone(gs.available_actions[k].player)
        /\ gs.available_actions # <<>> =>
               /\ gs.available_actions[Len(gs.available_actions)].action_type = "SelectNone"
               /\ gs.balls[1].position # NoSquare
               /\ OnHalfOf(gs.receiving_this_drive, gs.balls[1].position)
               /\ \A id \in DOMAIN gs.players :
                      gs.players[id].position # gs.balls[1].position

----------------------------------------------------------------------------
(* Properties of the movement allowance, checked under SpecAllowance.      *)

\* C35 as stated: from a state in which no player has more moves than its
\* movement allowance, executing discovered Move, StandUp and EndPlayerTurn
\* actions and taking GFI and Dodge outcomes never brings the moves of a
\* player above its movement allowance plus MAX_GFI
C35_MovesWithinAllowance ==
    \A id \in DOMAIN gs.players :
        gs.players[id].moves <= get_ma(gs.players[id]) + MAX_GFI

----------------------------------------------------------------------------
(* Properties of the path of a finished player, checked under SpecTurn.    *)

\* what MoveAction discovery offers a player that follows no path
OwnMoves(s) ==
    (IF s.players[s.active_player_id].up THEN <<>>
     ELSE <<NewAction("StandUp", None, NoSquare)>>)
    \o PathActions(find_all_paths(s, s.players[s.active_player_id]))
    \o <<NewAction("EndPlayerTurn", None, NoSquare)>>

\* the acting player has ended its turn and its team mate, which has not
\* moved, has started a move for which the actions are discovered
MateDiscoveredAfterActor ==
    /\ Discovered
    /\ gs.procedure = "MoveAction"
    /\ gs.active_player_id = MateOf(gs.current_team_id)
    /\ gs.players[ActorOf(gs.current_team_id)].used

\* C36 as stated: after StartMove(p), Move along a path, EndPlayerTurn and
\* StartMove(q), MoveAction discovery offers q its own pathfinder moves
\* followed by EndPlayerTurn, and neither a step nor the completion of the
\* path of p
C36_NoPathOfFinishedPlayer ==
    MateDiscoveredAfterActor => gs.available_actions = OwnMoves(gs)

----------------------------------------------------------------------------
(* Properties of the discovered actions, checked under SpecTurn.           *)

DecisionProcedures ==
    {"Turn", "MoveAction", "BlitzAction", "BlockAction", "Block", "Push", "FollowUp"}

\* C37 as stated: in procedure Turn, MoveAction, BlitzAction, BlockAction,
\* Block, Push or FollowUp, ActionRegistry::execute_action returns Ok for
\* every action that a successful discover_actions has placed in
\* available_actions
C37_DiscoveredActionsExecutable ==
    (Discovered /\ gs.procedure \in DecisionProcedures) =>
        \A action \in DiscoveredActions(gs) : execute_action(gs, action).ok

----------------------------------------------------------------------------
(* The steps of the returned paths, executed: properties checked under     *)
(* SpecPathfinder.                                                         *)

\* the active player stands on the square and no roll is pending
StandsOn(s, to) ==
    /\ HasPlayer(s, s.active_player_id)
    /\ s.players[s.active_player_id].position = to
    /\ s.players[s.active_player_id].up
    /\ s.procedure \notin {"GFI", "Dodge"}

NoStep(s) == [prob |-> 0, gs |-> s]

\* the outcome of the rollout in which the player stands on the square, with
\* its probability in sixths
StandingOutcome(s, rolled, to) ==
    IF ~rolled.ok THEN NoStep(s)
    ELSE IF \E i \in 1..Len(rolled.outcomes) : StandsOn(rolled.outcomes[i].resulting_state, to)
    THEN LET i == CHOOSE i \in 1..Len(rolled.outcomes) :
                      StandsOn(rolled.outcomes[i].resulting_state, to)
         IN [prob |-> rolled.outcomes[i].probability,
             gs |-> rolled.outcomes[i].resulting_state]
    ELSE NoStep(s)

\* a state after a Move or a GFI roll: the dodge it may wait for is rolled
AfterDodge(s, to) ==
    IF s.procedure = "Dodge" THEN StandingOutcome(s, dodge_rollout(s), to)
    ELSE IF StandsOn(s, to) THEN [prob |-> 6, gs |-> s]
    ELSE NoStep(s)

\* the success outcome of a GFI roll, which may wait for a dodge
GfiSuccess(s) ==
    LET rolled == gfi_rollout(s)
    IN IF rolled.ok THEN [prob |-> rolled.outcomes[1].probability,
                          gs |-> rolled.outcomes[1].resulting_state]
       ELSE NoStep(s)

\* Move to the square and the rolls it triggers: the probability, in 36ths,
\* that the player ends standing on the square, and the state in which it does
ExecuteStep(s, to) ==
    LET moved == move_execution(s, NewAction("Move", None, to))
    IN IF ~moved.ok THEN NoStep(s)
       ELSE IF moved.gs.procedure = "GFI"
       THEN [prob |-> GfiSuccess(moved.gs).prob * AfterDodge(GfiSuccess(moved.gs).gs, to).prob,
             gs |-> AfterDodge(GfiSuccess(moved.gs).gs, to).gs]
       ELSE [prob |-> 6 * AfterDodge(moved.gs, to).prob,
             gs |-> AfterDodge(moved.gs, to).gs]

\* the state after the first k steps of the path have succeeded
RECURSIVE StateAfter(_, _)
StateAfter(path, k) ==
    IF k = 0 THEN gs ELSE ExecuteStep(StateAfter(path, k - 1), path.squares[k]).gs

\* the probability that executing the first k steps of the path succeeds, in
\* parts of PROB_ONE
RECURSIVE PathExecution(_, _)
PathExecution(path, k) ==
    IF k = 0 THEN PROB_ONE
    ELSE (PathExecution(path, k - 1)
             * ExecuteStep(StateAfter(path, k - 1), path.squares[k]).prob) \div 36

\* the probability the pathfinder gives the k-th step of the path, in 36ths
PathfinderStep(path, k) ==
    LET self == Pathfinder_new(gs, Mover)
        move_prob == calculate_move_probability(
                         self,
                         [position |-> Left(path, k),
                          moves_left |-> saturating_sub(StartMoves(self), k - 1)],
                         path.squares[k])
    IN move_prob.gfi * move_prob.dodge

\* C38 as stated: the probability the pathfinder gives a step of a returned
\* path, its GFI factor times its dodge factor, is the probability with which
\* Move to the square of the step and the GFI and Dodge rollouts it triggers
\* leave the player standing on that square, and the prob of the path is the
\* probability that executing all its steps succeeds
C38_StepProbabilities ==
    Returned =>
        \A i \in PathIndices :
            /\ \A k \in 1..Len(found[i].squares) :
                   PathfinderStep(found[i], k)
                       = ExecuteStep(StateAfter(found[i], k - 1), found[i].squares[k]).prob
            /\ found[i].prob = PathExecution(found[i], Len(found[i].squares))

----------------------------------------------------------------------------
(* Properties of the score, checked under SpecScore.                       *)

ScoreGain(team) == gs'.score[team] - gs.score[team]

SetsTouchdown == gs.procedure # "Touchdown" /\ gs'.procedure = "Touchdown"

\* the score changes only with a touchdown, which gives one team one point
ScoreStep ==
    /\ gs'.score # gs.score =>
           /\ SetsTouchdown
           /\ \/ ScoreGain("home") = 1 /\ ScoreGain("away") = 0
              \/ ScoreGain("home") = 0 /\ ScoreGain("away") = 1
    /\ SetsTouchdown => gs'.score # gs.score

(* C39: over any sequence of executions and rollout outcomes the score of  *)
(* a team changes only in a step that sets the procedure to Touchdown; in  *)
(* such a step the score of exactly one team increases, by exactly 1; and  *)
(* every step that sets the procedure to Touchdown increases a score.      *)
C39_ScoreOnlyByTouchdown == [][ScoreStep]_vars

\* a push has resolved with the ball carrier in its scoring column
C39_Witness ==
    /\ gs.procedure = "Touchdown"
    /\ gs.score.home + gs.score.away = 1
    /\ last.op = "Push"

----------------------------------------------------------------------------
(* Properties of a failed execution, checked under SpecExecute.            *)

\* a step in which execute_action returned an error
ExecuteActionFailed == last'.op \in ExecutedActionTypes /\ ~last'.ok

\* C40 as stated: when ActionRegistry::execute_action returns an error the
\* game state is left as it was before the call: no procedure, context, flag
\* or player field has changed
C40_ErrorLeavesState == [][ExecuteActionFailed => gs' = gs]_vars
====
